---- MODULE Spec2Model ----
(***************************************************************************)
(* Entity-relationship analytics core of newspaper_utilities:              *)
(* GraphBuilder (scripts/network_analysis/graph_builder.py),               *)
(* MetricsCalculator (scripts/network_analysis/metrics.py) and             *)
(* CommunityDetector (scripts/network_analysis/community.py).              *)
(*                                                                         *)
(* Entity names are the integers 1..3, standing for the strings            *)
(* "A" < "B" < "C"; the integer order is the string order that             *)
(* sorted() uses.  A graph is a record                                     *)
(*   [nodes  : set of names,                                               *)
(*    weight : function from edges <<u, v>> (u <= v) to the weight,        *)
(*    attr   : function from nodes to the node attribute record]           *)
(* which is what an undirected networkx Graph holds.                       *)
(***************************************************************************)
EXTENDS Integers, Sequences, FiniteSets, TLC

VARIABLES
    entities_data,      \* Entity Directory handed to the GraphBuilder
    parameters,         \* graph_config['parameters'] of the graph being built
    pc,                 \* position of the run
    G,                  \* graph returned by build_cooccurrence_network
    temporal_graphs,    \* list returned by build_temporal_network
    tag_networks,       \* dict returned by build_tag_based_network, in insertion order
    filtering_config,   \* network_config['filtering']
    filtered_G,         \* graph returned by filter_network(G, filtering_config)
    refiltered_G,       \* graph returned by filter_network(filtered_G, filtering_config)
    networks,           \* the networks dict handed to calculate_all, in insertion order
    metrics_config,     \* network_config['metrics']
    metrics,            \* the metrics dict calculate_all fills, as a list of entries
    community_config,   \* network_config['community_detection']
    louvain_installed,  \* whether "import community" succeeds
    algo_i,             \* position of detect_communities in self.algorithms
    communities,        \* the communities dict detect_communities fills
    partition_arg,      \* the partition argument: its keys in insertion order, their ids
    community_info      \* list returned by get_community_info

vars == <<entities_data, parameters, pc, G, temporal_graphs, tag_networks,
          filtering_config, filtered_G, refiltered_G,
          networks, metrics_config, metrics,
          community_config, louvain_installed, algo_i, communities,
          partition_arg, community_info>>

builder_vars == <<entities_data, parameters, temporal_graphs, tag_networks>>
filter_vars == <<filtering_config, filtered_G, refiltered_G>>
metrics_vars == <<networks, metrics_config, metrics>>
community_vars == <<community_config, louvain_installed, algo_i, communities,
                    partition_arg, community_info>>

----------------------------------------------------------------------------
(* Bounds *)

MaxArticles == 3            \* articles in the corpus of the builder runs
MaxTemporalArticles == 2    \* articles in the corpus of the temporal runs
MaxMinCooccurrences == 2    \* largest configured min_cooccurrences
MaxNodes == 4               \* nodes of a graph handed to filter_network
MaxEdges == 4               \* edges of a graph handed to filter_network
MaxWeight == 2              \* largest edge weight of such a graph
MaxMinDegree == 2           \* largest configured min_degree
MaxTopN == 2                \* largest configured top_n_nodes
MaxNetworks == 2            \* networks handed to calculate_all
MaxCommunityNodes == 4      \* nodes of a graph handed to detect_communities
MaxLevels == 2              \* largest configured levels of girvan_newman
MaxAlgorithms == 2          \* longest configured list of community algorithms
MaxTagArticles == 2         \* articles of a corpus with tags
MaxTags == 2                \* longest configured list of tags
MaxBipartiteArticles == 2   \* most article records of a bipartite build

----------------------------------------------------------------------------
(* Inputs *)

Entities == {1, 2, 3}

\* article['date']: the fields of a "YYYY-MM-DD" string; NoDate is an absent
\* date (None), BadDate the string "2020-13-01" that strptime rejects
Date(y, m, d) == [year |-> y, month |-> m, day |-> d]
NoDate == Date(0, 0, 0)
BadDate == Date(2020, 13, 1)
Dates == {Date(2020, 1, 15), Date(2020, 2, 10), NoDate, BadDate}

\* list(article_people): the names of a set, listed in ascending order
RECURSIVE ListOf(_)
ListOf(S) ==
    IF S = {} THEN <<>>
    ELSE LET m == CHOOSE x \in S : \A y \in S : x <= y
         IN <<m>> \o ListOf(S \ {m})

\* the names of a set, listed in descending order
RECURSIVE Descending(_)
Descending(S) ==
    IF S = {} THEN <<>>
    ELSE LET m == CHOOSE x \in S : \A y \in S : x >= y
         IN <<m>> \o Descending(S \ {m})

\* the pairs of a set, listed in ascending order
RECURSIVE ListOfPairs(_)
ListOfPairs(S) ==
    IF S = {} THEN <<>>
    ELSE LET m == CHOOSE x \in S : \A y \in S :
                      x[1] < y[1] \/ (x[1] = y[1] /\ x[2] <= y[2])
         IN <<m>> \o ListOfPairs(S \ {m})

\* per-article lists written by the extractor: any set of people; the name 1
\* may also have been recognised as a place in the same article
PeopleLists == {ListOf(S) : S \in SUBSET Entities}
PlacesLists == {<<>>, <<1>>}

ArticleRecords(dates) ==
    [people : PeopleLists, places : PlacesLists, organizations : {<<>>},
     other : {<<>>}, date : dates]

\* the tags of the project; 'tags' of an article record lists those assigned
Tags == {"crime", "politics"}
TagLists == {<<>>, <<"crime">>, <<"crime", "politics">>}

\* article records that carry the 'tags' list the extractor copies over
TaggedArticleRecords ==
    [people : PeopleLists, places : PlacesLists, organizations : {<<>>},
     other : {<<>>}, date : {Date(2020, 1, 15)}, tags : TagLists]

SeqsUpTo(S, n) == UNION {[1..k -> S] : k \in 0..n}

\* number of entries e of a list
CountIn(list, e) == Cardinality({i \in 1..Len(list) : list[i] = e})

RECURSIVE Mentions(_, _, _)
Mentions(articles, key, e) ==
    IF articles = <<>> THEN 0
    ELSE CountIn(Head(articles)[key], e) + Mentions(Tail(articles), key, e)

\* people / places / organizations counters of the extractor: one mention per
\* article that lists the name under that type
Counts(articles, key) ==
    LET named == {e \in Entities : Mentions(articles, key, e) > 0}
    IN [e \in named |-> Mentions(articles, key, e)]

Directory(articles) ==
    [people |-> Counts(articles, "people"),
     places |-> Counts(articles, "places"),
     organizations |-> Counts(articles, "organizations"),
     article_entities |-> articles]

----------------------------------------------------------------------------
(* Graphs *)

Range(list) == {list[i] : i \in 1..Len(list)}

EmptyGraph == [order |-> <<>>, weight |-> <<>>, attr |-> <<>>]

\* G.nodes(): the nodes, which networkx keeps in insertion order (g.order)
Nodes(g) == Range(g.order)

Edges(g) == DOMAIN g.weight

\* G.degree(node): a self-loop counts twice
Degree(g, n) ==
    Cardinality({e \in Edges(g) : e[1] = n \/ e[2] = n})
    + (IF <<n, n>> \in Edges(g) THEN 1 ELSE 0)

\* tuple(sorted([entity1, entity2]))
SortedPair(entity1, entity2) ==
    IF entity1 <= entity2 THEN <<entity1, entity2>> ELSE <<entity2, entity1>>

\* all_entities of one article: the people, places and organizations lists
\* and the lists under the other entity-type keys, one after the other
all_entities_of(article) ==
    article.people \o article.places \o article.organizations \o article.other

\* the edges of the loop "for i, entity1 in enumerate(all_entities): for
\* entity2 in all_entities[i+1:]", in the order the loop makes them
RECURSIVE PairsFrom(_)
PairsFrom(list) ==
    IF Len(list) < 2 THEN <<>>
    ELSE [k \in 1..(Len(list) - 1) |-> SortedPair(list[1], list[k + 1])]
         \o PairsFrom(Tail(list))

\* the edges of all articles, in the order edge_weights[edge] += 1 runs
RECURSIVE ArticlePairs(_)
ArticlePairs(articles) ==
    IF articles = <<>> THEN <<>>
    ELSE PairsFrom(all_entities_of(Head(articles))) \o ArticlePairs(Tail(articles))

\* a list without its repeated entries (dict keys in insertion order)
RECURSIVE FirstOccurrences(_, _)
FirstOccurrences(list, seen) ==
    IF list = <<>> THEN <<>>
    ELSE IF Head(list) \in seen THEN FirstOccurrences(Tail(list), seen)
    ELSE <<Head(list)>> \o FirstOccurrences(Tail(list), seen \cup {Head(list)})

\* the defaultdict edge_weights after the loop over the articles: its keys in
\* insertion order and the count of each key
edge_weights_of(articles) ==
    LET pairs == ArticlePairs(articles)
    IN [keys |-> FirstOccurrences(pairs, {}),
        count |-> [e \in Range(pairs) |-> CountIn(pairs, e)]]

\* the node order that G.add_edge(entity1, entity2) calls leave
RECURSIVE AddedNodes(_, _)
AddedNodes(order, edges) ==
    IF edges = <<>> THEN order
    ELSE LET e == Head(edges)
             o1 == IF e[1] \in Range(order) THEN order ELSE Append(order, e[1])
             o2 == IF e[2] \in Range(o1) THEN o1 ELSE Append(o1, e[2])
         IN AddedNodes(o2, Tail(edges))

\* a node for every entity that has a counted pair
add_edges_mut_nodes(edge_weights, min_cooccurrences, weight_by_frequency) ==
    LET Kept(e) == edge_weights.count[e] >= min_cooccurrences
        kept == SelectSeq(edge_weights.keys, Kept)
    IN [order |-> AddedNodes(<<>>, edge_weights.keys),
        weight |-> [e \in Range(kept) |->
                      IF weight_by_frequency THEN edge_weights.count[e] ELSE 1],
        attr |-> <<>>]

\* the loop "Add edges that meet minimum threshold"
add_edges(edge_weights, min_cooccurrences, weight_by_frequency) ==
    LET Kept(e) == edge_weights.count[e] >= min_cooccurrences
        kept == SelectSeq(edge_weights.keys, Kept)
    IN [order |-> AddedNodes(<<>>, kept),
        weight |-> [e \in Range(kept) |->
                      IF weight_by_frequency THEN edge_weights.count[e] ELSE 1],
        attr |-> <<>>]

HasKey(dict, k) == k \in DOMAIN dict

DictGet(data, key) == IF key \in DOMAIN data THEN data[key] ELSE <<>>

\* _add_node_attributes: PERSON, then PLACE, then ORG overwrite each other
AttributesOf(data, node) ==
    LET people == DictGet(data, "people")
        places == DictGet(data, "places")
        organizations == DictGet(data, "organizations")
    IN IF HasKey(organizations, node)
         THEN [type |-> "ORG", mentions |-> organizations[node]]
       ELSE IF HasKey(places, node)
         THEN [type |-> "PLACE", mentions |-> places[node]]
       ELSE IF HasKey(people, node)
         THEN [type |-> "PERSON", mentions |-> people[node]]
       ELSE [type |-> "UNKNOWN", mentions |-> 0]

add_node_attributes(g, data) ==
    [g EXCEPT !.attr = [n \in Nodes(g) |-> AttributesOf(data, n)]]

build_cooccurrence_network(data, params) ==
    add_node_attributes(
        add_edges(edge_weights_of(data.article_entities),
                  params.min_cooccurrences, params.weight_by_frequency),
        data)

----------------------------------------------------------------------------
(* Temporal construction *)

IsLeap(y) == (y % 4 = 0 /\ y % 100 # 0) \/ y % 400 = 0

DaysIn(y, m) ==
    IF m = 2 THEN (IF IsLeap(y) THEN 29 ELSE 28)
    ELSE IF m \in {4, 6, 9, 11} THEN 30 ELSE 31

\* datetime.strptime(date_str, "%Y-%m-%d") returns a date (it raises otherwise)
Parses(date) ==
    /\ date.year >= 1
    /\ date.month \in 1..12
    /\ date.day >= 1 /\ date.day <= DaysIn(date.year, date.month)

RECURSIVE DaysBeforeMonth(_, _)
DaysBeforeMonth(y, m) ==
    IF m = 1 THEN 0 ELSE DaysBeforeMonth(y, m - 1) + DaysIn(y, m - 1)

\* days from 0001-01-01 to the first of January of year y
DaysBeforeYear(y) ==
    LET p == y - 1 IN p * 365 + (p \div 4) - (p \div 100) + (p \div 400)

\* date.weekday(): Monday is 0
Weekday(date) ==
    (DaysBeforeYear(date.year) + DaysBeforeMonth(date.year, date.month)
     + date.day - 1) % 7

\* %W: week of the year, the weeks starting on Monday
WeekOfYear(date) ==
    LET yday == DaysBeforeMonth(date.year, date.month) + date.day - 1
    IN (yday + 7 - Weekday(date)) \div 7

\* the period key of a parsed date, as the tuple of the numbers its string is
\* made of (the strings of one granularity sort as these tuples do)
period_of(date, time_slices) ==
    IF time_slices = "day" THEN <<date.year, date.month, date.day>>
    ELSE IF time_slices = "week" THEN <<date.year, WeekOfYear(date)>>
    ELSE IF time_slices = "month" THEN <<date.year, date.month>>
    ELSE IF time_slices = "quarter" THEN <<date.year, (date.month - 1) \div 3 + 1>>
    ELSE IF time_slices = "year" THEN <<date.year>>
    ELSE <<date.year, date.month>>

\* a date that strptime rejects is grouped all the same
Grouped_mut_malformed(article) == article.date # NoDate

\* the articles that reach temporal_groups[period].append(article)
Grouped(article) == article.date # NoDate /\ Parses(article.date)

\* temporal_groups[period], in article order
temporal_group(articles, time_slices, period) ==
    LET InPeriod(a) == Grouped(a) /\ period_of(a.date, time_slices) = period
    IN SelectSeq(articles, InPeriod)

PeriodKeys(articles, time_slices) ==
    {period_of(articles[i].date, time_slices) :
        i \in {j \in 1..Len(articles) : Grouped(articles[j])}}

\* order of two keys of the same length
RECURSIVE LexLeq(_, _)
LexLeq(a, b) ==
    IF a = <<>> THEN TRUE
    ELSE IF Head(a) # Head(b) THEN Head(a) < Head(b)
    ELSE LexLeq(Tail(a), Tail(b))

\* sorted(temporal_groups.keys())
RECURSIVE SortedKeys(_)
SortedKeys(S) ==
    IF S = {} THEN <<>>
    ELSE LET m == CHOOSE x \in S : \A y \in S : LexLeq(x, y)
         IN <<m>> \o SortedKeys(S \ {m})

build_temporal_network(data, params) ==
    LET articles == data.article_entities
        keys == SortedKeys(PeriodKeys(articles, params.time_slices))
    IN [i \in 1..Len(keys) |->
          LET articles_in_period ==
                  temporal_group(articles, params.time_slices, keys[i])
              period_data == [article_entities |-> articles_in_period]
          IN [period |-> keys[i],
              graph |-> build_cooccurrence_network(period_data, params),
              article_count |-> Len(articles_in_period)]]

\* a tag without matching articles gets a graph all the same
build_tag_based_network_mut_keep(data, params) ==
    LET tags == FirstOccurrences(params.tags, {})
    IN [i \in 1..Len(tags) |->
          LET Tagged(article) == tags[i] \in Range(article.tags)
              tag_data == [article_entities |->
                              SelectSeq(data.article_entities, Tagged)]
          IN [tag |-> tags[i],
              graph |-> build_cooccurrence_network(tag_data, params)]]

\* the dict build_tag_based_network returns, as the list of its items: a
\* key keeps the place of its first assignment
build_tag_based_network(data, params) ==
    LET Matching(tag) ==
            LET Tagged(article) == tag \in Range(article.tags)
            IN SelectSeq(data.article_entities, Tagged)
        HasArticles(tag) == Matching(tag) # <<>>
        tags == FirstOccurrences(SelectSeq(params.tags, HasArticles), {})
    IN [i \in 1..Len(tags) |->
          LET tag_data == [article_entities |-> Matching(tags[i])]
          IN [tag |-> tags[i],
              graph |-> build_cooccurrence_network(tag_data, params)]]

----------------------------------------------------------------------------
(* Filtering *)

\* filtering_config.get(...) defaults; top_n_nodes = 0 stands for None
NoFiltering ==
    [min_degree |-> 1, min_edge_weight |-> 0, top_n_nodes |-> 0,
     giant_component_only |-> FALSE]

\* filtered_G.remove_edges_from(edges_to_remove)
remove_edges_from(g, edges_to_remove) ==
    [g EXCEPT !.weight = [e \in Edges(g) \ edges_to_remove |-> g.weight[e]]]

\* filtered_G.remove_nodes_from(nodes_to_remove): the nodes go with their edges
remove_nodes_from(g, nodes_to_remove) ==
    LET Stays(n) == n \notin nodes_to_remove
        edges == {e \in Edges(g) : Stays(e[1]) /\ Stays(e[2])}
    IN [order |-> SelectSeq(g.order, Stays),
        weight |-> [e \in edges |-> g.weight[e]],
        attr |-> [n \in Nodes(g) \ nodes_to_remove |-> g.attr[n]]]

\* "Remove low-weight edges"
remove_low_weight_edges(g, min_edge_weight) ==
    IF min_edge_weight > 0
    THEN remove_edges_from(g, {e \in Edges(g) : g.weight[e] < min_edge_weight})
    ELSE g

\* "Remove low-degree nodes": one pass over the degrees
remove_low_degree_nodes(g, min_degree) ==
    IF min_degree > 1
    THEN remove_nodes_from(g, {n \in Nodes(g) : Degree(g, n) < min_degree})
    ELSE g

\* position of a node in G.nodes()
PositionOf(g, n) == CHOOSE i \in 1..Len(g.order) : g.order[i] = n

\* the nodes sorted() puts before n: higher degree, or equal degree and
\* earlier in the graph (the sort is stable)
RankedBefore(g, n) ==
    {m \in Nodes(g) :
        \/ Degree(g, m) > Degree(g, n)
        \/ Degree(g, m) = Degree(g, n) /\ PositionOf(g, m) < PositionOf(g, n)}

\* "Keep only top N nodes by degree"
keep_top_n_nodes(g, top_n_nodes) ==
    IF top_n_nodes # 0
    THEN LET nodes_to_keep ==
                 {n \in Nodes(g) : Cardinality(RankedBefore(g, n)) < top_n_nodes}
         IN remove_nodes_from(g, Nodes(g) \ nodes_to_keep)
    ELSE g

Neighbours(g, S) ==
    S \cup {n \in Nodes(g) : \E m \in S : SortedPair(n, m) \in Edges(g)}

\* the connected component of node n
RECURSIVE Reach(_, _)
Reach(g, S) == IF Neighbours(g, S) = S THEN S ELSE Reach(g, Neighbours(g, S))

Component(g, n) == Reach(g, {n})

\* nx.connected_components(G): the components in the order of their first node
RECURSIVE ComponentsFrom(_, _, _)
ComponentsFrom(g, order, seen) ==
    IF order = <<>> THEN <<>>
    ELSE IF Head(order) \in seen THEN ComponentsFrom(g, Tail(order), seen)
    ELSE <<Component(g, Head(order))>>
         \o ComponentsFrom(g, Tail(order), seen \cup Component(g, Head(order)))

connected_components(g) == ComponentsFrom(g, g.order, {})

\* nx.is_connected(G) raises NetworkXPointlessConcept on a graph without nodes
is_connected_raises(g) == Nodes(g) = {}

\* nx.is_connected(G), for a graph with a node
is_connected(g) == Component(g, g.order[1]) = Nodes(g)

\* max(components, key=len): the first of the largest components
LargestComponent(g) ==
    LET cc == connected_components(g)
        i == CHOOSE k \in 1..Len(cc) :
                 /\ \A j \in 1..Len(cc) : Cardinality(cc[j]) <= Cardinality(cc[k])
                 /\ \A j \in 1..(k - 1) : Cardinality(cc[j]) < Cardinality(cc[k])
    IN cc[i]

\* "Keep only giant component", for a graph with a node
keep_giant_component(g, giant_component_only) ==
    IF giant_component_only /\ ~is_connected(g)
    THEN remove_nodes_from(g, Nodes(g) \ LargestComponent(g))
    ELSE g

\* the degree stage ahead of the edge-weight stage
BeforeGiantStage_mut_order(g, config) ==
    keep_top_n_nodes(
        remove_low_weight_edges(
            remove_low_degree_nodes(g, config.min_degree),
            config.min_edge_weight),
        config.top_n_nodes)

\* the graph the first three stages leave
BeforeGiantStage(g, config) ==
    keep_top_n_nodes(
        remove_low_degree_nodes(
            remove_low_weight_edges(g, config.min_edge_weight),
            config.min_degree),
        config.top_n_nodes)

\* filter_network raises instead of returning
filter_network_raises(g, config) ==
    config.giant_component_only /\ is_connected_raises(BeforeGiantStage(g, config))

\* the graph filter_network returns
filter_network(g, config) ==
    keep_giant_component(BeforeGiantStage(g, config), config.giant_component_only)

----------------------------------------------------------------------------
(* Metrics *)

\* a configuration without a 'metrics' section
NoMetrics == [node_metrics |-> <<>>, graph_metrics |-> <<>>, temporal_metrics |-> <<>>]

RECURSIVE SumSeq(_)
SumSeq(list) == IF list = <<>> THEN 0 ELSE Head(list) + SumSeq(Tail(list))

MaxOf(S) == CHOOSE x \in S : \A y \in S : y <= x
MinOf(S) == CHOOSE x \in S : \A y \in S : x <= y

\* a quotient a / b that the code leaves as a float
Ratio(a, b) == <<a, b>>

\* nx.density(G)
density(g) ==
    LET n == Len(g.order)
    IN IF n <= 1 THEN Ratio(0, 1)
       ELSE Ratio(2 * Cardinality(Edges(g)), n * (n - 1))

\* length of the shortest path from the set S (at distance d) to node t of
\* the same component
RECURSIVE DistanceFrom(_, _, _, _)
DistanceFrom(g, S, t, d) ==
    IF t \in S THEN d ELSE DistanceFrom(g, Neighbours(g, S), t, d + 1)

Distance(g, u, v) == DistanceFrom(g, {u}, v, 0)

\* nx.diameter(G) of a connected graph
diameter(g) == MaxOf({Distance(g, u, v) : u \in Nodes(g), v \in Nodes(g)})

\* nx.average_shortest_path_length(G) of a connected graph
average_shortest_path_length(g) ==
    LET n == Len(g.order)
        lengths == [k \in 1..(n * n) |->
                      Distance(g, g.order[((k - 1) \div n) + 1],
                                  g.order[((k - 1) % n) + 1])]
    IN IF n = 1 THEN Ratio(0, 1) ELSE Ratio(SumSeq(lengths), n * (n - 1))

Requested(name, selection) == name \in Range(selection)

\* the key a node metric is stored under
NodeMetricKey(name) == IF name = "clustering_coefficient" THEN "clustering" ELSE name

NodeMetricNames ==
    {"degree_centrality", "betweenness_centrality", "closeness_centrality",
     "eigenvector_centrality", "pagerank", "clustering_coefficient"}

\* _calculate_node_metrics: for each requested metric the model keeps the
\* nodes the networkx score dict covers (the scores are floats)
calculate_node_metrics(g, config) ==
    [key \in {NodeMetricKey(name) :
                name \in NodeMetricNames \cap Range(config.node_metrics)}
        |-> Nodes(g)]

\* _calculate_graph_level_metrics raises: nx.is_connected on a graph
\* without nodes
calculate_graph_level_metrics_raises(g) == is_connected_raises(g)

\* diameter and average path length by request alone (the length of an
\* unreachable pair taken as the number of nodes)
calculate_graph_level_metrics_mut_connected(g, config) ==
    LET components == connected_components(g)
        degrees == [i \in 1..Len(g.order) |-> Degree(g, g.order[i])]
    IN ("num_nodes" :> Len(g.order))
       @@ ("num_edges" :> Cardinality(Edges(g)))
       @@ (IF Requested("density", config.graph_metrics)
           THEN "density" :> density(g) ELSE <<>>)
       @@ ("num_components" :> Len(components))
       @@ (IF Len(components) > 0
           THEN "largest_component_size" :> Cardinality(LargestComponent(g))
           ELSE <<>>)
       @@ (IF Requested("diameter", config.graph_metrics)
           THEN "diameter" :> (IF is_connected(g) THEN diameter(g)
                               ELSE Len(g.order))
           ELSE <<>>)
       @@ (IF Requested("average_path_length", config.graph_metrics)
           THEN "avg_path_length" :>
                   (IF is_connected(g) THEN average_shortest_path_length(g)
                    ELSE Ratio(Len(g.order), 1))
           ELSE <<>>)
       @@ (IF degrees # <<>>
           THEN ("avg_degree" :> Ratio(SumSeq(degrees), Len(degrees)))
                @@ ("max_degree" :> MaxOf(Range(degrees)))
                @@ ("min_degree" :> MinOf(Range(degrees)))
           ELSE <<>>)

\* the dict _calculate_graph_level_metrics returns, for a graph with a node
calculate_graph_level_metrics(g, config) ==
    LET components == connected_components(g)
        degrees == [i \in 1..Len(g.order) |-> Degree(g, g.order[i])]
    IN ("num_nodes" :> Len(g.order))
       @@ ("num_edges" :> Cardinality(Edges(g)))
       @@ (IF Requested("density", config.graph_metrics)
           THEN "density" :> density(g) ELSE <<>>)
       @@ ("num_components" :> Len(components))
       @@ (IF Len(components) > 0
           THEN "largest_component_size" :> Cardinality(LargestComponent(g))
           ELSE <<>>)
       @@ (IF is_connected(g) /\ Requested("diameter", config.graph_metrics)
           THEN "diameter" :> diameter(g) ELSE <<>>)
       @@ (IF is_connected(g) /\ Requested("average_path_length", config.graph_metrics)
           THEN "avg_path_length" :> average_shortest_path_length(g) ELSE <<>>)
       @@ (IF degrees # <<>>
           THEN ("avg_degree" :> Ratio(SumSeq(degrees), Len(degrees)))
                @@ ("max_degree" :> MaxOf(Range(degrees)))
                @@ ("min_degree" :> MinOf(Range(degrees)))
           ELSE <<>>)

\* calculate_graph_metrics raises
calculate_graph_metrics_raises(g, config) ==
    config.graph_metrics # <<>> /\ calculate_graph_level_metrics_raises(g)

\* the dict calculate_graph_metrics returns
calculate_graph_metrics(g, config) ==
    (IF config.node_metrics # <<>>
     THEN "node_metrics" :> calculate_node_metrics(g, config) ELSE <<>>)
    @@ (IF config.graph_metrics # <<>>
        THEN "graph_metrics" :> calculate_graph_level_metrics(g, config) ELSE <<>>)

\* the periods (1-based positions in the sequence) whose graph holds node n
AppearancesOf(snapshots, n) ==
    LET Holds(i) == n \in Nodes(snapshots[i].graph)
        idx == SelectSeq([i \in 1..Len(snapshots) |-> i], Holds)
    IN [k \in 1..Len(idx) |->
          [period |-> snapshots[idx[k]].period,
           degree |-> Degree(snapshots[idx[k]].graph, n)]]

\* np.argmax(degrees): the first position (0-based) of the largest degree
ArgMax(degrees) ==
    (CHOOSE i \in 1..Len(degrees) :
        /\ \A j \in 1..Len(degrees) : degrees[j] <= degrees[i]
        /\ \A j \in 1..(i - 1) : degrees[j] < degrees[i]) - 1

\* one entry of _analyze_entity_timelines; the burstiness of several
\* appearances is the float std / (mean + 0.001) of the degrees kept here
analyze_entity_timeline(appearances) ==
    LET degrees == [k \in 1..Len(appearances) |-> appearances[k].degree]
        peak_idx == ArgMax(degrees)
    IN [first_appearance |-> appearances[1].period,
        last_appearance |-> appearances[Len(appearances)].period,
        total_appearances |-> Len(appearances),
        persistence |-> Len(appearances),
        peak_mentions |-> MaxOf(Range(degrees) \cup {0}),
        burstiness |-> IF Len(appearances) > 1
                        THEN [std_over_mean_of |-> degrees]
                        ELSE [std_over_mean_of |-> <<>>],
        emergence_rate |-> IF Len(appearances) >= 2 /\ peak_idx > 0
                            THEN Ratio(degrees[peak_idx + 1] - degrees[1], peak_idx)
                            ELSE Ratio(0, 1)]

TemporalMetricNames ==
    {"entity_emergence_rate", "entity_persistence", "entity_burstiness"}

\* the dict _calculate_temporal_metrics returns
calculate_temporal_metrics(snapshots, config) ==
    LET seen == UNION {Nodes(snapshots[i].graph) : i \in 1..Len(snapshots)}
    IN ("time_periods" :> Len(snapshots))
       @@ ("periods" :>
              [i \in 1..Len(snapshots) |->
                 [period |-> snapshots[i].period,
                  num_nodes |-> Len(snapshots[i].graph.order),
                  num_edges |-> Cardinality(Edges(snapshots[i].graph)),
                  density |-> density(snapshots[i].graph),
                  article_count |-> snapshots[i].article_count]])
       @@ (IF TemporalMetricNames \cap Range(config.temporal_metrics) # {}
           THEN "entity_timelines" :>
                   [n \in seen |->
                      analyze_entity_timeline(AppearancesOf(snapshots, n))]
           ELSE <<>>)

\* the networks of a tag dict that raise in calculate_graph_metrics
TagRaises(network_data, config) ==
    \E i \in 1..Len(network_data) :
        calculate_graph_metrics_raises(network_data[i].graph, config)

\* one iteration of the loop of calculate_all raises
network_metrics_raises(network_data, config) ==
    IF network_data.kind = "list" THEN FALSE
    ELSE IF network_data.kind = "dict" THEN TagRaises(network_data.tags, config)
    ELSE calculate_graph_metrics_raises(network_data.graph, config)

\* metrics[network_name] of one iteration of the loop of calculate_all
network_metrics(network_data, config) ==
    IF network_data.kind = "list"
    THEN calculate_temporal_metrics(network_data.snapshots, config)
    ELSE IF network_data.kind = "dict"
    THEN [i \in 1..Len(network_data.tags) |->
            [tag |-> network_data.tags[i].tag,
             metrics |-> calculate_graph_metrics(network_data.tags[i].graph, config)]]
    ELSE calculate_graph_metrics(network_data.graph, config)

----------------------------------------------------------------------------
(* Community detection *)

\* a configuration without a 'community_detection' section
NoCommunityDetection == [enabled |-> FALSE, algorithms |-> <<>>]

\* a dict with its values computed (f @@ <<>> is f, as a table)
Dict(f) == f @@ <<>>

\* G[node]: the neighbours of a node (the node itself when it has a self-loop)
Adj(g, n) == {m \in Nodes(g) : SortedPair(n, m) \in Edges(g)}

\* the nodes of S in the order of G.nodes()
InGraphOrder(g, S) == LET Member(n) == n \in S IN SelectSeq(g.order, Member)

\* sorted(G, key=G.degree, reverse=True): the largest_first strategy of
\* nx.coloring.greedy_color
LargestFirst(g) ==
    [i \in 1..Len(g.order) |->
        CHOOSE n \in Nodes(g) : Cardinality(RankedBefore(g, n)) = i - 1]

\* greedy_color: every node takes the smallest colour no coloured neighbour has
RECURSIVE GreedyColor(_, _, _)
GreedyColor(g, nodes, colors) ==
    IF nodes = <<>> THEN colors
    ELSE LET u == Head(nodes)
             neighbour_colors == {colors[v] : v \in Adj(g, u) \cap DOMAIN colors}
             color == MinOf((0..Len(g.order)) \ neighbour_colors)
         IN GreedyColor(g, Tail(nodes), (u :> color) @@ colors)

\* _color_network: the colours in the order the coloring dict lists them
ColorOrder(g) ==
    LET colors == GreedyColor(g, LargestFirst(g), <<>>)
        nodes == LargestFirst(g)
    IN [colors |-> colors,
        order |-> FirstOccurrences([i \in 1..Len(nodes) |-> colors[nodes[i]]], {})]

\* _most_frequent_labels
most_frequent_labels(g, labeling, node) ==
    IF Adj(g, node) = {} THEN {labeling[node]}
    ELSE LET Freq(label) == Cardinality({q \in Adj(g, node) : labeling[q] = label})
             labels == {labeling[q] : q \in Adj(g, node)}
         IN {label \in labels : \A other \in labels : Freq(other) <= Freq(label)}

\* _update_label: the label of the node after the update
update_label(g, labeling, node) ==
    LET high_labels == most_frequent_labels(g, labeling, node)
    IN IF Cardinality(high_labels) = 1 THEN CHOOSE label \in high_labels : TRUE
       ELSE IF labeling[node] \notin high_labels THEN MaxOf(high_labels)
       ELSE labeling[node]

\* _labeling_complete
labeling_complete(g, labeling) ==
    \A v \in Nodes(g) :
        Adj(g, v) # {} => labeling[v] \in most_frequent_labels(g, labeling, v)

\* the updates of the nodes of the colours in turn; nodes of one colour do
\* not read each other's label
RECURSIVE UpdateColors(_, _, _, _)
UpdateColors(g, coloring, colors_left, labeling) ==
    IF colors_left = <<>> THEN labeling
    ELSE UpdateColors(g, coloring, Tail(colors_left),
            Dict([n \in Nodes(g) |->
                    IF coloring[n] = Head(colors_left)
                    THEN update_label(g, labeling, n) ELSE labeling[n]]))

RECURSIVE PropagateLabels(_, _, _)
PropagateLabels(g, coloring, labeling) ==
    IF labeling_complete(g, labeling) THEN labeling
    ELSE PropagateLabels(g, coloring,
            UpdateColors(g, coloring.colors, coloring.order, labeling))

\* the sets in the order of their last node
ClustersOf_mut_last(g, labeling) ==
    LET labels == FirstOccurrences(
                      [i \in 1..Len(g.order) |->
                          labeling[g.order[Len(g.order) + 1 - i]]], {})
    IN [k \in 1..Len(labels) |-> {n \in Nodes(g) : labeling[n] = labels[k]}]

\* the values of a node -> label dict grouped into sets, the sets in the
\* order of their first node
ClustersOf(g, labeling) ==
    LET labels == FirstOccurrences(
                      [i \in 1..Len(g.order) |-> labeling[g.order[i]]], {})
    IN [k \in 1..Len(labels) |-> {n \in Nodes(g) : labeling[n] = labels[k]}]

\* nx.community.label_propagation_communities(G)
label_propagation_communities(g) ==
    ClustersOf(g, PropagateLabels(g, ColorOrder(g),
                                  [n \in Nodes(g) |-> PositionOf(g, n) - 1]))

\* the last community is left out
partition_of_mut_last(found) ==
    LET covered == UNION {found[i] : i \in 1..(Len(found) - 1)}
    IN [node \in covered |->
          MaxOf({i \in 1..Len(found) : node \in found[i]}) - 1]

\* "Convert to partition dict": partition[node] = i for the i-th community
partition_of(found) ==
    LET covered == UNION {found[i] : i \in 1..Len(found)}
    IN [node \in covered |->
          MaxOf({i \in 1..Len(found) : node \in found[i]}) - 1]

\* "Calculate community sizes": community_sizes[comm_id] += 1
community_sizes_of(partition) ==
    [comm_id \in {partition[n] : n \in DOMAIN partition} |->
        Cardinality({n \in DOMAIN partition : partition[n] = comm_id})]

\* the dict _detect_label_propagation returns
detect_label_propagation(g) ==
    LET partition == partition_of(label_propagation_communities(g))
        community_sizes == community_sizes_of(partition)
    IN ("partition" :> partition)
       @@ ("num_communities" :> Cardinality(DOMAIN community_sizes))
       @@ ("community_sizes" :> community_sizes)

\* the length of the shortest path between every two nodes, -1 without a path
shortest_path_lengths(g) ==
    Dict([st \in Nodes(g) \X Nodes(g) |->
            IF st[2] \in Component(g, st[1])
            THEN DistanceFrom(g, {st[1]}, st[2], 0) ELSE -1])

\* number of shortest paths from s to t (same component)
RECURSIVE Sigma(_, _, _, _)
Sigma(g, dist, s, t) ==
    IF s = t THEN 1
    ELSE LET before == ListOf({u \in Adj(g, t) \ {t} :
                                  dist[<<s, u>>] = dist[<<s, t>>] - 1})
         IN SumSeq([i \in 1..Len(before) |-> Sigma(g, dist, s, before[i])])

RECURSIVE Product(_)
Product(list) == IF list = <<>> THEN 1 ELSE Head(list) * Product(Tail(list))

\* nx.edge_betweenness_centrality(G), times a factor common to all edges (the
\* product of the path counts), which keeps the scores integers: for every
\* pair of nodes joined by a path, the share of its shortest paths that run
\* through the edge
edge_betweenness_centrality(g) ==
    LET dist == shortest_path_lengths(g)
        sigma == Dict([st \in Nodes(g) \X Nodes(g) |->
                         IF dist[st] < 0 THEN 0 ELSE Sigma(g, dist, st[1], st[2])])
        pairs == ListOfPairs({st \in Nodes(g) \X Nodes(g) :
                                 st[1] < st[2] /\ dist[st] >= 0})
        scale == Product([i \in 1..Len(pairs) |-> sigma[pairs[i]]])
        Along(s, t, u, v) ==
            IF dist[<<s, u>>] >= 0 /\ dist[<<v, t>>] >= 0
               /\ dist[<<s, u>>] + 1 + dist[<<v, t>>] = dist[<<s, t>>]
            THEN sigma[<<s, u>>] * sigma[<<v, t>>] ELSE 0
    IN Dict([e \in Edges(g) |->
               SumSeq([i \in 1..Len(pairs) |->
                   (scale \div sigma[pairs[i]])
                   * (Along(pairs[i][1], pairs[i][2], e[1], e[2])
                      + Along(pairs[i][1], pairs[i][2], e[2], e[1]))])])

\* the edges max(betweenness, key=betweenness.get) may return: the scores are
\* floats, and which of several edges of the same exact betweenness holds the
\* largest float is not fixed by the graph
most_valuable_edges(g) ==
    LET betweenness == edge_betweenness_centrality(g)
    IN {e \in Edges(g) : \A f \in Edges(g) : betweenness[f] <= betweenness[e]}

\* _without_most_central_edges: the graphs left and the components returned
RECURSIVE without_most_central_edges(_, _)
without_most_central_edges(g, original_num_components) ==
    UNION {LET h == remove_edges_from(g, {edge})
           IN IF Len(connected_components(h)) > original_num_components
              THEN {[graph |-> h, components |-> connected_components(h)]}
              ELSE without_most_central_edges(h, original_num_components) :
           edge \in most_valuable_edges(g)}

\* the "while g.number_of_edges() > 0" loop of girvan_newman: the sequences
\* of partitions the generator may yield
RECURSIVE girvan_newman_loop(_)
girvan_newman_loop(g) ==
    IF Edges(g) = {} THEN {<<>>}
    ELSE UNION {{<<step.components>> \o rest : rest \in girvan_newman_loop(step.graph)} :
                  step \in without_most_central_edges(g, Len(connected_components(g)))}

\* nx.community.girvan_newman(G): a graph without edges yields its
\* components once; otherwise the self-loops are removed first
girvan_newman(g) ==
    IF Edges(g) = {} THEN {<<connected_components(g)>>}
    ELSE girvan_newman_loop(
             remove_edges_from(g, {e \in Edges(g) : e[1] = e[2]}))

\* "for i in range(levels): communities = next(communities_generator)" leaves
\* communities unbound, and the conversion raises UnboundLocalError
detect_girvan_newman_raises(yielded, levels) == levels <= 0 \/ yielded = <<>>

\* the first partition whatever the levels
detect_girvan_newman_mut_first(yielded, levels) ==
    LET found == yielded[1]
        partition == partition_of(found)
        community_sizes == community_sizes_of(partition)
    IN ("partition" :> partition)
       @@ ("num_communities" :> Cardinality(DOMAIN community_sizes))
       @@ ("community_sizes" :> community_sizes)
       @@ ("levels" :> levels)

\* the dict _detect_girvan_newman returns when the generator yields the
\* sequence of partitions yielded
detect_girvan_newman(yielded, levels) ==
    LET found == yielded[IF levels <= Len(yielded) THEN levels ELSE Len(yielded)]
        partition == partition_of(found)
        community_sizes == community_sizes_of(partition)
    IN ("partition" :> partition)
       @@ ("num_communities" :> Cardinality(DOMAIN community_sizes))
       @@ ("community_sizes" :> community_sizes)
       @@ ("levels" :> levels)

\* the dicts community_louvain.best_partition(G) may return: without edges
\* every node is its own community, numbered in node order; otherwise the
\* outcome of a randomised optimisation, a numbering 0..k-1 of k communities.
\* A node only ever joins the community of a neighbour, so no community
\* spans two components
best_partitions(g) ==
    IF Edges(g) = {} THEN {[n \in Nodes(g) |-> PositionOf(g, n) - 1]}
    ELSE LET component == Dict([n \in Nodes(g) |-> Component(g, n)])
         IN UNION {{f \in [Nodes(g) -> 0..(k - 1)] :
                      /\ \A c \in 0..(k - 1) : \E n \in Nodes(g) : f[n] = c
                      /\ \A n, m \in Nodes(g) :
                            f[n] = f[m] => m \in component[n]} :
                   k \in 1..Len(g.order)}

\* graph.size(weight='weight'): the total edge weight
TotalWeight(g) ==
    LET edges == ListOfPairs(Edges(g))
    IN SumSeq([i \in 1..Len(edges) |-> g.weight[edges[i]]])

\* community_louvain.modularity raises ValueError on a graph without links
modularity_raises(g) == TotalWeight(g) = 0

\* community_louvain.modularity(partition, G): the sum over the communities of
\* inc / links - (deg / (2 links))^2
modularity(partition, g) ==
    LET links == TotalWeight(g)
        edges == ListOfPairs(Edges(g))
        Inc(c) == SumSeq([i \in 1..Len(edges) |->
                     IF partition[edges[i][1]] = c /\ partition[edges[i][2]] = c
                     THEN g.weight[edges[i]] ELSE 0])
        Deg(c) == SumSeq([i \in 1..Len(edges) |->
                     g.weight[edges[i]]
                     * ((IF partition[edges[i][1]] = c THEN 1 ELSE 0)
                        + (IF partition[edges[i][2]] = c THEN 1 ELSE 0))])
        ids == ListOf({partition[n] : n \in DOMAIN partition})
    IN Ratio(SumSeq([k \in 1..Len(ids) |->
                       4 * links * Inc(ids[k]) - Deg(ids[k]) * Deg(ids[k])]),
             4 * links * links)

\* the dict _detect_louvain returns for the partition best_partition gave
detect_louvain(g, partition) ==
    LET community_sizes == community_sizes_of(partition)
    IN ("partition" :> partition)
       @@ ("num_communities" :> Cardinality(DOMAIN community_sizes))
       @@ ("modularity" :> modularity(partition, g))
       @@ ("community_sizes" :> community_sizes)

\* no partition at hand
NoPartition == [keys |-> <<>>, ids |-> <<>>]

\* the dict "communities" of get_community_info: the ids in the order of
\* their first key, each with its nodes in the order of the keys
grouped_by_community(part) ==
    LET ids == FirstOccurrences(
                   [i \in 1..Len(part.keys) |-> part.ids[part.keys[i]]], {})
    IN [k \in 1..Len(ids) |->
          LET InCommunity(n) == part.ids[n] = ids[k]
          IN [id |-> ids[k], nodes |-> SelectSeq(part.keys, InCommunity)]]

\* G.subgraph(nodes): the nodes of the list that G holds, with their edges
subgraph(g, nodes) == remove_nodes_from(g, Nodes(g) \ Range(nodes))

\* the order in which the subgraph view lists its nodes: the order of G, or,
\* when the node set given is shorter than half of G, the order of that set
\* (a hash order: either way round for the two names at most it holds here)
subgraph_order(g, nodes, reversed) ==
    LET S == Range(nodes) \cap Nodes(g)
    IN IF 2 * Cardinality(S) < Len(g.order)
       THEN (IF reversed THEN Descending(S) ELSE ListOf(S))
       ELSE InGraphOrder(g, S)

\* sorted(nx.degree_centrality(subgraph).items(), key=..., reverse=True)[:5]
top_nodes_of(g, nodes, reversed) ==
    LET sub == subgraph(g, nodes)
        order == subgraph_order(g, nodes, reversed)
        Centrality(n) ==
            IF Len(order) <= 1 THEN Ratio(1, 1)
            ELSE Ratio(Degree(sub, n), Len(order) - 1)
        Pos(n) == CHOOSE i \in 1..Len(order) : order[i] = n
        Ahead(n) == {m \in Range(order) :
                        \/ Degree(sub, m) > Degree(sub, n)
                        \/ Degree(sub, m) = Degree(sub, n) /\ Pos(m) < Pos(n)}
        sorted == [i \in 1..Len(order) |->
                     CHOOSE n \in Range(order) : Cardinality(Ahead(n)) = i - 1]
    IN [i \in 1..(IF Len(order) < 5 THEN Len(order) ELSE 5) |->
          [name |-> sorted[i], centrality |-> Centrality(sorted[i])]]

\* the info dict of one community; the label joins the names it lists
community_info_of(g, community, reversed) ==
    LET top_nodes == top_nodes_of(g, community.nodes, reversed)
    IN [id |-> community.id,
        label |-> IF top_nodes # <<>>
                  THEN [joined |-> [i \in 1..(IF Len(top_nodes) < 2 THEN Len(top_nodes) ELSE 2)
                                       |-> top_nodes[i].name]]
                  ELSE [community |-> community.id],
        size |-> Len(community.nodes),
        nodes |-> community.nodes,
        top_nodes |-> top_nodes,
        density |-> IF Len(community.nodes) > 1
                    THEN density(subgraph(g, community.nodes))
                    ELSE Ratio(0, 1)]

\* community_info.sort(key=lambda x: x['size'], reverse=True): a stable sort
sort_by_size(info) ==
    LET Ahead(k) == {j \in 1..Len(info) :
                        \/ info[j].size > info[k].size
                        \/ info[j].size = info[k].size /\ j < k}
    IN [i \in 1..Len(info) |->
          info[CHOOSE k \in 1..Len(info) : Cardinality(Ahead(k)) = i - 1]]

\* the list get_community_info returns
get_community_info(g, part, reversed) ==
    LET grouped == grouped_by_community(part)
    IN sort_by_size([k \in 1..Len(grouped) |->
                        community_info_of(g, grouped[k], reversed)])

\* nodes that are no key of the partition get community 0
add_communities_to_graph_mut_default(g, part) ==
    [g EXCEPT !.attr =
        [n \in Nodes(g) |->
            IF n \in Range(part.keys)
            THEN ("community" :> part.ids[n]) @@ g.attr[n]
            ELSE ("community" :> 0) @@ g.attr[n]]]

\* add_communities_to_graph: G.nodes[node]['community'] = comm_id for the
\* keys of the partition that are nodes of G
add_communities_to_graph(g, part) ==
    [g EXCEPT !.attr =
        [n \in Nodes(g) |->
            IF n \in Range(part.keys)
            THEN ("community" :> part.ids[n]) @@ g.attr[n]
            ELSE g.attr[n]]]

----------------------------------------------------------------------------
(* Builder runs *)

ParameterSets(slices) ==
    [min_cooccurrences : 1..MaxMinCooccurrences,
     weight_by_frequency : BOOLEAN,
     time_slices : slices]

Init ==
    /\ \E articles \in SeqsUpTo(ArticleRecords({Date(2020, 1, 15)}), MaxArticles) :
          entities_data = Directory(articles)
    /\ parameters \in ParameterSets({"month"})
    /\ pc = "start"
    /\ G = EmptyGraph
    /\ temporal_graphs = <<>>
    /\ tag_networks = <<>>
    /\ filtering_config = NoFiltering
    /\ filtered_G = EmptyGraph
    /\ refiltered_G = EmptyGraph
    /\ networks = <<>>
    /\ metrics_config = NoMetrics
    /\ metrics = <<>>
    /\ community_config = NoCommunityDetection
    /\ louvain_installed = TRUE
    /\ algo_i = 1
    /\ communities = <<>>
    /\ partition_arg = NoPartition
    /\ community_info = <<>>

BuildCooccurrence ==
    /\ pc = "start"
    /\ G' = build_cooccurrence_network(entities_data, parameters)
    /\ pc' = "built"
    /\ UNCHANGED <<entities_data, parameters, temporal_graphs, tag_networks, filter_vars, metrics_vars, community_vars>>

Next == BuildCooccurrence

Spec == Init /\ [][Next]_vars

----------------------------------------------------------------------------
(* Properties of the co-occurrence build *)

\* the number of articles that mention both a and b
CoArticles(articles, a, b) ==
    Cardinality({i \in 1..Len(articles) :
        {a, b} \subseteq Range(all_entities_of(articles[i]))})

DistinctPairs == {e \in Entities \X Entities : e[1] < e[2]}

\* C1: after build_cooccurrence_network, every pair of distinct entities
\* mentioned together in exactly k articles has an edge of weight k
\* (weight_by_frequency) or 1 (otherwise) when k >= min_cooccurrences, and no
\* edge when k < min_cooccurrences.
C1_EdgeWeightIsArticleCount ==
    pc = "built" =>
        \A e \in DistinctPairs :
            LET k == CoArticles(entities_data.article_entities, e[1], e[2])
            IN IF k >= parameters.min_cooccurrences
               THEN /\ e \in Edges(G)
                    /\ G.weight[e] = (IF parameters.weight_by_frequency THEN k ELSE 1)
               ELSE e \notin Edges(G)

\* C2: the graph returned by build_cooccurrence_network has no self-loop (an
\* edge is stored once per unordered pair, so it has no duplicate edge).
C2_NoSelfLoop ==
    pc = "built" => \A e \in Edges(G) : e[1] # e[2]

\* C3: each article adds at most 1 to the count of a pair: the count
\* accumulated for two distinct entities, which is the weight of their edge
\* under weight_by_frequency, is the number of articles mentioning both.
C3_ArticleCountsOnce ==
    (pc = "built" /\ parameters.weight_by_frequency) =>
        \A e \in Edges(G) :
            e[1] # e[2] =>
                G.weight[e] = CoArticles(entities_data.article_entities, e[1], e[2])

\* C4: every node of the graph returned by build_cooccurrence_network has
\* degree >= 1.
C4_NoIsolatedNode ==
    pc = "built" => \A n \in Nodes(G) : Degree(G, n) >= 1

\* a build that kept some entities and left out an entity whose pairs all
\* stayed under the threshold
C4_Witness ==
    /\ pc = "built"
    /\ Nodes(G) # {}
    /\ \E i \in 1..Len(entities_data.article_entities) :
          \E n \in Range(all_entities_of(entities_data.article_entities[i])) :
              n \notin Nodes(G)

----------------------------------------------------------------------------
(* Temporal runs: the corpus carries dates, and the time-sliced build is     *)
(* followed by a whole-corpus build over the same directory                  *)

InitTemporal ==
    /\ \E articles \in SeqsUpTo(ArticleRecords(Dates), MaxTemporalArticles) :
          entities_data = Directory(articles)
    /\ parameters \in ParameterSets({"month", "quarter"})
    /\ pc = "start"
    /\ G = EmptyGraph
    /\ temporal_graphs = <<>>
    /\ tag_networks = <<>>
    /\ filtering_config = NoFiltering
    /\ filtered_G = EmptyGraph
    /\ refiltered_G = EmptyGraph
    /\ networks = <<>>
    /\ metrics_config = NoMetrics
    /\ metrics = <<>>
    /\ community_config = NoCommunityDetection
    /\ louvain_installed = TRUE
    /\ algo_i = 1
    /\ communities = <<>>
    /\ partition_arg = NoPartition
    /\ community_info = <<>>

BuildTemporal ==
    /\ pc = "start"
    /\ temporal_graphs' = build_temporal_network(entities_data, parameters)
    /\ pc' = "temporal_built"
    /\ UNCHANGED <<entities_data, parameters, G, tag_networks, filter_vars, metrics_vars, community_vars>>

BuildMerged ==
    /\ pc = "temporal_built"
    /\ G' = build_cooccurrence_network(entities_data, parameters)
    /\ pc' = "merged_built"
    /\ UNCHANGED <<entities_data, parameters, temporal_graphs, tag_networks, filter_vars, metrics_vars, community_vars>>

NextTemporal == BuildTemporal \/ BuildMerged

SpecTemporal == InitTemporal /\ [][NextTemporal]_vars

----------------------------------------------------------------------------
(* Tag runs: the articles carry tags and one graph is built per configured *)
(* tag                                                                       *)

TagParameterSets ==
    [min_cooccurrences : 1..MaxMinCooccurrences,
     weight_by_frequency : BOOLEAN,
     time_slices : {"month"},
     tags : SeqsUpTo(Tags, MaxTags)]

InitTags ==
    /\ \E articles \in SeqsUpTo(TaggedArticleRecords, MaxTagArticles) :
          entities_data = Directory(articles)
    /\ parameters \in TagParameterSets
    /\ pc = "start"
    /\ G = EmptyGraph
    /\ temporal_graphs = <<>>
    /\ tag_networks = <<>>
    /\ filtering_config = NoFiltering
    /\ filtered_G = EmptyGraph
    /\ refiltered_G = EmptyGraph
    /\ networks = <<>>
    /\ metrics_config = NoMetrics
    /\ metrics = <<>>
    /\ community_config = NoCommunityDetection
    /\ louvain_installed = TRUE
    /\ algo_i = 1
    /\ communities = <<>>
    /\ partition_arg = NoPartition
    /\ community_info = <<>>

BuildTagBased ==
    /\ pc = "start"
    /\ tag_networks' = build_tag_based_network(entities_data, parameters)
    /\ pc' = "tags_built"
    /\ UNCHANGED <<entities_data, parameters, G, temporal_graphs, filter_vars,
                   metrics_vars, community_vars>>

NextTags == BuildTagBased

SpecTags == InitTags /\ [][NextTags]_vars

----------------------------------------------------------------------------
(* Filter runs: a built graph is filtered, and the result filtered again     *)
(* with the same configuration                                               *)

FilterNodes == 1..MaxNodes

\* the edges a built graph may have: any pair of nodes, and the self-loop that
\* a repeated name 1 leaves
FilterPairs ==
    {e \in FilterNodes \X FilterNodes : e[1] < e[2]} \cup {<<1, 1>>}

EdgeSets == {E \in SUBSET FilterPairs : Cardinality(E) <= MaxEdges}

\* the endpoints of a set of edges
Endpoints(E) == {e[1] : e \in E} \cup {e[2] : e \in E}

\* a graph with the edge weights w, the nodes in the order o, and the
\* attributes of nodes without a directory entry
GraphOf(o, w) ==
    add_node_attributes([order |-> o, weight |-> w, attr |-> <<>>],
                        [article_entities |-> <<>>])

\* the graphs build_cooccurrence_network returns: every node has an edge
BuiltGraphs ==
    UNION {{GraphOf(ListOf(Endpoints(DOMAIN w)), w),
            GraphOf(Descending(Endpoints(DOMAIN w)), w)} :
              w \in UNION {[E -> 1..MaxWeight] : E \in EdgeSets}}

FilteringConfigs ==
    [min_degree : 1..MaxMinDegree,
     min_edge_weight : 0..MaxWeight,
     top_n_nodes : 0..MaxTopN,
     giant_component_only : BOOLEAN]

InitFilter ==
    /\ entities_data = Directory(<<>>)
    /\ parameters \in ParameterSets({"month"})
    /\ parameters.min_cooccurrences = 1 /\ parameters.weight_by_frequency
    /\ temporal_graphs = <<>>
    /\ tag_networks = <<>>
    /\ pc = "built"
    /\ G \in BuiltGraphs
    /\ filtering_config \in FilteringConfigs
    /\ filtered_G = EmptyGraph
    /\ refiltered_G = EmptyGraph
    /\ networks = <<>>
    /\ metrics_config = NoMetrics
    /\ metrics = <<>>
    /\ community_config = NoCommunityDetection
    /\ louvain_installed = TRUE
    /\ algo_i = 1
    /\ communities = <<>>
    /\ partition_arg = NoPartition
    /\ community_info = <<>>

\* the stages work on G itself instead of on G.copy()
FilterNetwork_mut_inplace ==
    /\ pc = "built"
    /\ ~filter_network_raises(G, filtering_config)
    /\ G' = filter_network(G, filtering_config)
    /\ filtered_G' = G'
    /\ pc' = "filtered"
    /\ UNCHANGED <<builder_vars, filtering_config, refiltered_G, metrics_vars, community_vars>>

\* "filtered_G = G.copy()" ... "return filtered_G": G itself stays as it is
FilterNetwork ==
    /\ pc = "built"
    /\ ~filter_network_raises(G, filtering_config)
    /\ filtered_G' = filter_network(G, filtering_config)
    /\ pc' = "filtered"
    /\ UNCHANGED <<builder_vars, G, filtering_config, refiltered_G, metrics_vars, community_vars>>

FilterNetworkRaises ==
    /\ pc = "built"
    /\ filter_network_raises(G, filtering_config)
    /\ pc' = "raised"
    /\ UNCHANGED <<builder_vars, G, filter_vars, metrics_vars, community_vars>>

FilterAgain ==
    /\ pc = "filtered"
    /\ ~filter_network_raises(filtered_G, filtering_config)
    /\ refiltered_G' = filter_network(filtered_G, filtering_config)
    /\ pc' = "refiltered"
    /\ UNCHANGED <<builder_vars, G, filtering_config, filtered_G, metrics_vars, community_vars>>

FilterAgainRaises ==
    /\ pc = "filtered"
    /\ filter_network_raises(filtered_G, filtering_config)
    /\ pc' = "raised_again"
    /\ UNCHANGED <<builder_vars, G, filter_vars, metrics_vars, community_vars>>

NextFilter ==
    FilterNetwork \/ FilterNetworkRaises \/ FilterAgain \/ FilterAgainRaises

SpecFilter == InitFilter /\ [][NextFilter]_vars

\* C5: filtering the graph filter_network returned, with the same
\* configuration, returns it unchanged: same nodes, edges and weights.
C5_FilterIdempotent ==
    /\ pc = "refiltered" => refiltered_G = filtered_G
    /\ pc # "raised_again"

----------------------------------------------------------------------------
(* Metrics runs: calculate_all over the networks build_all_networks returned *)

\* graphs the builder returns: the graph without nodes (no pair met the
\* threshold), connected graphs and a graph of two components
MetricGraphs ==
    {GraphOf(ListOf(Endpoints(E)), [e \in E |-> 1]) :
        E \in SUBSET {<<1, 2>>, <<2, 3>>, <<3, 4>>}}

\* a single graph, a temporal list of one snapshot, a tag dict of one graph
NetworkData ==
    {[kind |-> "Graph", graph |-> g] : g \in MetricGraphs}
    \cup {[kind |-> "list",
           snapshots |-> <<[period |-> <<2020, 1>>, graph |-> g,
                            article_count |-> 1]>>] : g \in MetricGraphs}
    \cup {[kind |-> "dict", tags |-> <<[tag |-> "crime", graph |-> g]>>] :
             g \in MetricGraphs}

MetricsConfigs ==
    [node_metrics : {<<>>, <<"degree_centrality", "clustering_coefficient">>},
     graph_metrics : {<<>>, <<"density">>, <<"diameter">>,
                      <<"density", "diameter", "average_path_length">>},
     temporal_metrics : {<<>>, <<"entity_persistence">>}]

InitMetrics ==
    /\ entities_data = Directory(<<>>)
    /\ parameters \in ParameterSets({"month"})
    /\ parameters.min_cooccurrences = 1 /\ parameters.weight_by_frequency
    /\ temporal_graphs = <<>>
    /\ tag_networks = <<>>
    /\ G = EmptyGraph
    /\ filtering_config = NoFiltering
    /\ filtered_G = EmptyGraph
    /\ refiltered_G = EmptyGraph
    /\ pc = "calculate_all"
    /\ networks \in SeqsUpTo(NetworkData, MaxNetworks)
    /\ metrics_config \in MetricsConfigs
    /\ metrics = <<>>
    /\ community_config = NoCommunityDetection
    /\ louvain_installed = TRUE
    /\ algo_i = 1
    /\ communities = <<>>
    /\ partition_arg = NoPartition
    /\ community_info = <<>>

\* one iteration of "for network_name, network_data in networks.items()"
CalculateNetwork ==
    /\ pc = "calculate_all"
    /\ Len(metrics) < Len(networks)
    /\ LET network_data == networks[Len(metrics) + 1]
       IN /\ ~network_metrics_raises(network_data, metrics_config)
          /\ metrics' = Append(metrics, network_metrics(network_data, metrics_config))
    /\ UNCHANGED <<builder_vars, G, filter_vars, networks, metrics_config, pc, community_vars>>

\* an iteration raises and calculate_all is left without a result
CalculateRaises ==
    /\ pc = "calculate_all"
    /\ Len(metrics) < Len(networks)
    /\ network_metrics_raises(networks[Len(metrics) + 1], metrics_config)
    /\ pc' = "metrics_raised"
    /\ UNCHANGED <<builder_vars, G, filter_vars, metrics_vars, community_vars>>

\* "return metrics"
CalculateReturn ==
    /\ pc = "calculate_all"
    /\ Len(metrics) = Len(networks)
    /\ pc' = "metrics_done"
    /\ UNCHANGED <<builder_vars, G, filter_vars, metrics_vars, community_vars>>

NextMetrics == CalculateNetwork \/ CalculateRaises \/ CalculateReturn

SpecMetrics == InitMetrics /\ [][NextMetrics]_vars

----------------------------------------------------------------------------
(* Community runs: detect_communities over a built graph *)

CommunityNodes == 1..MaxCommunityNodes

\* edges of the graphs handed to the detector: a chain of the nodes, a chord
\* that closes a triangle, and the self-loop a repeated name 1 leaves
CommunityPairs ==
    {<<i, i + 1>> : i \in 1..(MaxCommunityNodes - 1)} \cup {<<1, 3>>, <<1, 1>>}

CommunityGraphs ==
    {GraphOf(ListOf(Endpoints(E)), [e \in E |-> 1]) : E \in SUBSET CommunityPairs}

\* the names detect_communities has a branch for
KnownAlgorithms == {"louvain", "label_propagation", "girvan_newman"}

\* the names a configuration can hold: validate_config looks at the keys
\* 'project' and 'tags' only, so a name without a branch ("spectral") gets
\* as far as detect_communities
AlgorithmNames == KnownAlgorithms \cup {"spectral"}

\* algo_config: its name, its 'enabled' flag and config.get('levels', 3),
\* which a configuration can also set to 0
AlgoConfigs ==
    {c \in [name : AlgorithmNames, enabled : BOOLEAN, levels : 0..(MaxLevels + 1)] :
        IF c.name = "girvan_newman" THEN c.levels <= MaxLevels
        ELSE c.levels = MaxLevels + 1}

\* the configured lists name an algorithm at most once
AlgorithmLists ==
    {list \in SeqsUpTo(AlgoConfigs, MaxAlgorithms) :
        \A i, j \in 1..Len(list) : list[i].name = list[j].name => i = j}

InitCommunity ==
    /\ entities_data = Directory(<<>>)
    /\ parameters \in ParameterSets({"month"})
    /\ parameters.min_cooccurrences = 1 /\ parameters.weight_by_frequency
    /\ temporal_graphs = <<>>
    /\ tag_networks = <<>>
    /\ filtering_config = NoFiltering
    /\ filtered_G = EmptyGraph
    /\ refiltered_G = EmptyGraph
    /\ networks = <<>>
    /\ metrics_config = NoMetrics
    /\ metrics = <<>>
    /\ pc = "detect_communities"
    /\ G \in CommunityGraphs
    /\ community_config \in [enabled : BOOLEAN, algorithms : AlgorithmLists]
    /\ louvain_installed \in BOOLEAN
    /\ algo_i = 1
    /\ communities = <<>>
    /\ partition_arg = NoPartition
    /\ community_info = <<>>

\* communities[algo_name] = result
Store(algo_name, result) ==
    communities' = (algo_name :> result) @@ communities

\* the loop of detect_communities is at an algorithm named name
AtAlgorithm(name) ==
    /\ pc = "detect_communities"
    /\ community_config.enabled
    /\ algo_i <= Len(community_config.algorithms)
    /\ community_config.algorithms[algo_i].enabled
    /\ community_config.algorithms[algo_i].name = name

\* "if not self.enabled or not self.algorithms: return {}"
DetectDisabled ==
    /\ pc = "detect_communities"
    /\ ~community_config.enabled \/ community_config.algorithms = <<>>
    /\ pc' = "communities_done"
    /\ UNCHANGED <<builder_vars, G, filter_vars, metrics_vars, community_vars>>

\* "if not algo_config.get('enabled', True): continue"
SkipAlgorithm ==
    /\ pc = "detect_communities"
    /\ community_config.enabled
    /\ algo_i <= Len(community_config.algorithms)
    /\ ~community_config.algorithms[algo_i].enabled
    /\ algo_i' = algo_i + 1
    /\ UNCHANGED <<builder_vars, G, filter_vars, metrics_vars, pc,
                   community_config, louvain_installed, communities,
                   partition_arg, community_info>>

\* no branch of the if/elif chain matches the name: nothing is stored and
\* the loop goes on
DetectUnknown ==
    /\ pc = "detect_communities"
    /\ community_config.enabled
    /\ algo_i <= Len(community_config.algorithms)
    /\ community_config.algorithms[algo_i].enabled
    /\ community_config.algorithms[algo_i].name \notin KnownAlgorithms
    /\ algo_i' = algo_i + 1
    /\ UNCHANGED <<builder_vars, G, filter_vars, metrics_vars, pc,
                   community_config, louvain_installed, communities,
                   partition_arg, community_info>>

DetectLouvain ==
    /\ AtAlgorithm("louvain")
    /\ louvain_installed
    /\ ~modularity_raises(G)
    /\ \E partition \in best_partitions(G) :
          Store("louvain", detect_louvain(G, partition))
    /\ algo_i' = algo_i + 1
    /\ UNCHANGED <<builder_vars, G, filter_vars, metrics_vars, pc,
                   community_config, louvain_installed, partition_arg, community_info>>

\* "except ImportError: ... return {}"
DetectLouvainSkipped ==
    /\ AtAlgorithm("louvain")
    /\ ~louvain_installed
    /\ Store("louvain", <<>>)
    /\ algo_i' = algo_i + 1
    /\ UNCHANGED <<builder_vars, G, filter_vars, metrics_vars, pc,
                   community_config, louvain_installed, partition_arg, community_info>>

\* the ValueError of community_louvain.modularity is not caught
DetectLouvainRaises ==
    /\ AtAlgorithm("louvain")
    /\ louvain_installed
    /\ modularity_raises(G)
    /\ pc' = "communities_raised"
    /\ UNCHANGED <<builder_vars, G, filter_vars, metrics_vars, community_vars>>

DetectLabelPropagation ==
    /\ AtAlgorithm("label_propagation")
    /\ Store("label_propagation", detect_label_propagation(G))
    /\ algo_i' = algo_i + 1
    /\ UNCHANGED <<builder_vars, G, filter_vars, metrics_vars, pc,
                   community_config, louvain_installed, partition_arg, community_info>>

DetectGirvanNewman ==
    /\ AtAlgorithm("girvan_newman")
    /\ \E yielded \in girvan_newman(G) :
          LET levels == community_config.algorithms[algo_i].levels
          IN /\ ~detect_girvan_newman_raises(yielded, levels)
             /\ Store("girvan_newman", detect_girvan_newman(yielded, levels))
    /\ algo_i' = algo_i + 1
    /\ UNCHANGED <<builder_vars, G, filter_vars, metrics_vars, pc,
                   community_config, louvain_installed, partition_arg, community_info>>

DetectGirvanNewmanRaises ==
    /\ AtAlgorithm("girvan_newman")
    /\ \E yielded \in girvan_newman(G) :
          detect_girvan_newman_raises(yielded,
                                      community_config.algorithms[algo_i].levels)
    /\ pc' = "communities_raised"
    /\ UNCHANGED <<builder_vars, G, filter_vars, metrics_vars, community_vars>>

\* "return communities"
DetectReturn ==
    /\ pc = "detect_communities"
    /\ community_config.enabled
    /\ community_config.algorithms # <<>>
    /\ algo_i > Len(community_config.algorithms)
    /\ pc' = "communities_done"
    /\ UNCHANGED <<builder_vars, G, filter_vars, metrics_vars, community_vars>>

\* the partition dict of a result as main hands it on, its keys in the order
\* of the nodes of G
partition_dict(g, partition) ==
    LET IsKey(n) == n \in DOMAIN partition
    IN [keys |-> SelectSeq(g.order, IsKey), ids |-> partition]

\* the names in the order of their last entry
result_names_mut_reversed(config) ==
    LET IsEnabled(algo_config) ==
            algo_config.enabled /\ algo_config.name \in KnownAlgorithms
        enabled == SelectSeq(config.algorithms, IsEnabled)
    IN FirstOccurrences(
           [i \in 1..Len(enabled) |-> enabled[Len(enabled) + 1 - i].name], {})

\* the names of comm_result.items(): the enabled algorithms that have a
\* branch, in the order of their first entry in the configured list
result_names(config) ==
    LET IsEnabled(algo_config) ==
            algo_config.enabled /\ algo_config.name \in KnownAlgorithms
        enabled == SelectSeq(config.algorithms, IsEnabled)
    IN FirstOccurrences([i \in 1..Len(enabled) |-> enabled[i].name], {})

\* "for algo_name, comm_data in comm_result.items(): if 'partition' in
\* comm_data: add_communities_to_graph(network_data, comm_data['partition'])"
RECURSIVE write_back(_, _, _)
write_back(g, names, comm_result) ==
    IF names = <<>> THEN g
    ELSE LET comm_data == comm_result[Head(names)]
         IN write_back(
                IF "partition" \in DOMAIN comm_data
                THEN add_communities_to_graph(
                         g, partition_dict(g, comm_data["partition"]))
                ELSE g,
                Tail(names), comm_result)

\* "'louvain' in comm_result and 'partition' in comm_result['louvain']"
has_louvain_partition(comm_result) ==
    /\ "louvain" \in DOMAIN comm_result
    /\ "partition" \in DOMAIN comm_result["louvain"]

\* the body of main's loop after detect_communities returned a non-empty
\* dict: the write-back of every result that has a partition, then the
\* community info of the louvain partition
PipelineWriteBack ==
    /\ pc = "communities_done"
    /\ DOMAIN communities # {}
    /\ G' = write_back(G, result_names(community_config), communities)
    /\ \E reversed \in BOOLEAN :
          community_info' =
              IF has_louvain_partition(communities)
              THEN get_community_info(
                       G', partition_dict(G, communities["louvain"]["partition"]),
                       reversed)
              ELSE <<>>
    /\ pc' = "pipeline_done"
    /\ UNCHANGED <<builder_vars, filter_vars, metrics_vars, community_config,
                   louvain_installed, algo_i, communities, partition_arg>>

NextCommunity ==
    \/ PipelineWriteBack
    \/ DetectUnknown
    \/ DetectDisabled
    \/ SkipAlgorithm
    \/ DetectLouvain
    \/ DetectLouvainSkipped
    \/ DetectLouvainRaises
    \/ DetectLabelPropagation
    \/ DetectGirvanNewman
    \/ DetectGirvanNewmanRaises
    \/ DetectReturn

SpecCommunity == InitCommunity /\ [][NextCommunity]_vars

----------------------------------------------------------------------------
(* Label propagation on two disjoint triangles *)

\* the edges of the triangles a-b-c and d-e-f
TriangleEdges == {<<1, 2>>, <<1, 3>>, <<2, 3>>, <<4, 5>>, <<4, 6>>, <<5, 6>>}

\* the orders in which a graph can hold the six nodes
NodeOrders ==
    {o \in [1..6 -> Endpoints(TriangleEdges)] : \A i, j \in 1..6 : o[i] = o[j] => i = j}

\* the graphs made of the two triangles
TwoTriangles == {GraphOf(o, [e \in TriangleEdges |-> 1]) : o \in NodeOrders}

\* community_detection with label_propagation alone
LabelPropagationOnly ==
    [enabled |-> TRUE,
     algorithms |-> <<[name |-> "label_propagation", enabled |-> TRUE,
                       levels |-> MaxLevels + 1]>>]

InitTriangles ==
    /\ entities_data = Directory(<<>>)
    /\ parameters \in ParameterSets({"month"})
    /\ parameters.min_cooccurrences = 1 /\ parameters.weight_by_frequency
    /\ temporal_graphs = <<>>
    /\ tag_networks = <<>>
    /\ filtering_config = NoFiltering
    /\ filtered_G = EmptyGraph
    /\ refiltered_G = EmptyGraph
    /\ networks = <<>>
    /\ metrics_config = NoMetrics
    /\ metrics = <<>>
    /\ pc = "detect_communities"
    /\ G \in TwoTriangles
    /\ community_config = LabelPropagationOnly
    /\ louvain_installed \in BOOLEAN
    /\ algo_i = 1
    /\ communities = <<>>
    /\ partition_arg = NoPartition
    /\ community_info = <<>>

NextTriangles == DetectLabelPropagation \/ DetectReturn

SpecTriangles == InitTriangles /\ [][NextTriangles]_vars

----------------------------------------------------------------------------
(* Partition runs: a partition is written back onto a graph and the        *)
(* communities are described                                                *)

\* the numberings 0..k-1 of k communities over the keys K
DenseIds(K) ==
    IF K = {} THEN {<<>>}
    ELSE UNION {{f \in [K -> 0..(k - 1)] :
                    \A c \in 0..(k - 1) : \E n \in K : f[n] = c} :
                k \in 1..Cardinality(K)}

\* partition dicts over some of the names, the keys inserted in ascending or
\* in descending order
Partitions ==
    UNION {{[keys |-> o, ids |-> f] :
               o \in {ListOf(K), Descending(K)}, f \in DenseIds(K)} :
           K \in SUBSET CommunityNodes}

InitPartition ==
    /\ entities_data = Directory(<<>>)
    /\ parameters \in ParameterSets({"month"})
    /\ parameters.min_cooccurrences = 1 /\ parameters.weight_by_frequency
    /\ temporal_graphs = <<>>
    /\ tag_networks = <<>>
    /\ filtering_config = NoFiltering
    /\ filtered_G = EmptyGraph
    /\ refiltered_G = EmptyGraph
    /\ networks = <<>>
    /\ metrics_config = NoMetrics
    /\ metrics = <<>>
    /\ community_config = NoCommunityDetection
    /\ louvain_installed = TRUE
    /\ algo_i = 1
    /\ communities = <<>>
    /\ pc = "partitioned"
    /\ G \in CommunityGraphs
    /\ partition_arg \in Partitions
    /\ community_info = <<>>

AddCommunitiesToGraph ==
    /\ pc = "partitioned"
    /\ G' = add_communities_to_graph(G, partition_arg)
    /\ pc' = "written_back"
    /\ UNCHANGED <<builder_vars, filter_vars, metrics_vars, community_vars>>

GetCommunityInfo ==
    /\ pc = "written_back"
    /\ \E reversed \in BOOLEAN :
          community_info' = get_community_info(G, partition_arg, reversed)
    /\ pc' = "info_done"
    /\ UNCHANGED <<builder_vars, G, filter_vars, metrics_vars,
                   community_config, louvain_installed, algo_i, communities,
                   partition_arg>>

NextPartition == AddCommunitiesToGraph \/ GetCommunityInfo

SpecPartition == InitPartition /\ [][NextPartition]_vars

----------------------------------------------------------------------------
(* Properties of the temporal build *)

\* the articles build_temporal_network assigned to some period
AssignedArticles(articles) == SelectSeq(articles, Grouped)

\* edges with their weights
WeightedEdges(g) == {<<e, g.weight[e]>> : e \in Edges(g)}

PeriodEdges(snapshots) ==
    UNION {WeightedEdges(snapshots[i].graph) : i \in 1..Len(snapshots)}

\* every pair of distinct entities co-occurs in the articles of at most one
\* period
SinglePeriodPairs(snapshots, articles, time_slices) ==
    \A e \in DistinctPairs :
        \A i, j \in 1..Len(snapshots) :
            (/\ CoArticles(temporal_group(articles, time_slices,
                                          snapshots[i].period), e[1], e[2]) > 0
             /\ CoArticles(temporal_group(articles, time_slices,
                                          snapshots[j].period), e[1], e[2]) > 0)
            => i = j

\* C9: when every co-occurring pair of entities co-occurs within one period
\* only, the weighted edges of the period graphs together are the weighted
\* edges of one build, with the same parameters, over the articles that were
\* assigned to periods.
C9_PeriodsUnionIsMergedBuild ==
    (/\ pc = "temporal_built"
     /\ SinglePeriodPairs(temporal_graphs, entities_data.article_entities,
                          parameters.time_slices))
    => PeriodEdges(temporal_graphs)
         = WeightedEdges(build_cooccurrence_network(
               [article_entities |->
                    AssignedArticles(entities_data.article_entities)],
               parameters))

\* C10: a pair of entities mentioned together in fewer than
\* min_cooccurrences articles of a period has no edge in that period's graph.
C10_ThresholdPerPeriod ==
    pc = "temporal_built" =>
        \A i \in 1..Len(temporal_graphs) :
            \A e \in DistinctPairs :
                CoArticles(temporal_group(entities_data.article_entities,
                                          parameters.time_slices,
                                          temporal_graphs[i].period),
                           e[1], e[2]) < parameters.min_cooccurrences
                => e \notin Edges(temporal_graphs[i].graph)

----------------------------------------------------------------------------
(* Properties of the metrics *)

\* a graph with a node, every node reachable from every other
Connected(g) ==
    Nodes(g) # {} /\ \A n, m \in Nodes(g) : m \in Component(g, n)

\* the graphs calculate_all has handled so far, each with the graph-metrics
\* bundle _calculate_graph_level_metrics returned for it
ReturnedBundles ==
    UNION {IF networks[i].kind = "Graph"
           THEN IF "graph_metrics" \in DOMAIN metrics[i]
                THEN {[graph |-> networks[i].graph,
                       bundle |-> metrics[i]["graph_metrics"]]}
                ELSE {}
           ELSE IF networks[i].kind = "dict"
           THEN {[graph |-> networks[i].tags[k].graph,
                  bundle |-> metrics[i][k].metrics["graph_metrics"]] :
                    k \in {k \in 1..Len(metrics[i]) :
                             "graph_metrics" \in DOMAIN metrics[i][k].metrics}}
           ELSE {} : i \in 1..Len(metrics)}

\* C6 as stated: in every graph-metrics bundle returned, diameter and average
\* path length are present if and only if the graph is connected.
C6_PresentIffConnected ==
    \A r \in ReturnedBundles :
        /\ "diameter" \in DOMAIN r.bundle <=> Connected(r.graph)
        /\ "avg_path_length" \in DOMAIN r.bundle <=> Connected(r.graph)

\* C6 amended: in every graph-metrics bundle returned, diameter is present if
\* and only if the graph is connected and 'diameter' is among the configured
\* graph metrics, and average path length is present if and only if the graph
\* is connected and 'average_path_length' is among them; both are absent for
\* every disconnected graph.
C6_PresentIffConnectedAndRequested ==
    \A r \in ReturnedBundles :
        /\ "diameter" \in DOMAIN r.bundle
             <=> (Connected(r.graph)
                  /\ Requested("diameter", metrics_config.graph_metrics))
        /\ "avg_path_length" \in DOMAIN r.bundle
             <=> (Connected(r.graph)
                  /\ Requested("average_path_length", metrics_config.graph_metrics))

\* both metrics were asked for; a connected graph of several nodes got them
\* and a disconnected graph did not
C6_Witness ==
    /\ Requested("diameter", metrics_config.graph_metrics)
    /\ Requested("average_path_length", metrics_config.graph_metrics)
    /\ \E r \in ReturnedBundles :
          /\ Connected(r.graph) /\ Len(r.graph.order) > 2
          /\ {"diameter", "avg_path_length"} \subseteq DOMAIN r.bundle
    /\ \E r \in ReturnedBundles :
          /\ ~Connected(r.graph)
          /\ {"diameter", "avg_path_length"} \cap DOMAIN r.bundle = {}

\* C7: calculate_all does not raise, and when it returns it has a metrics
\* entry for every network, whatever graphs (disconnected, without nodes)
\* the collection holds.
C7_CalculateAllNeverAborts ==
    /\ pc # "metrics_raised"
    /\ pc = "metrics_done" => Len(metrics) = Len(networks)

----------------------------------------------------------------------------
(* Properties of the community detection *)

\* the values of a dict of numbers, added up
SumOfValues(sizes) ==
    LET keys == ListOf(DOMAIN sizes)
    IN SumSeq([i \in 1..Len(keys) |-> sizes[keys[i]]])

\* C8: every result of detect_communities that carries a partition has a
\* partition whose keys are exactly the nodes of G (one community id each),
\* num_communities is the number of distinct partition values and the number
\* of entries of community_sizes, and the sizes add up to the number of nodes.
C8_PartitionCoversNodes ==
    \A algo_name \in DOMAIN communities :
        "partition" \in DOMAIN communities[algo_name] =>
            LET result == communities[algo_name]
                ids == {result.partition[n] : n \in DOMAIN result.partition}
            IN /\ DOMAIN result.partition = Nodes(G)
               /\ result.num_communities = Cardinality(ids)
               /\ result.num_communities = Cardinality(DOMAIN result.community_sizes)
               /\ SumOfValues(result.community_sizes) = Cardinality(Nodes(G))

\* label propagation and girvan_newman both returned a partition of a graph
\* into several communities, one of them of several nodes
C8_Witness ==
    /\ pc = "communities_done"
    /\ {"label_propagation", "girvan_newman"} \subseteq DOMAIN communities
    /\ \A algo_name \in {"label_propagation", "girvan_newman"} :
          /\ "partition" \in DOMAIN communities[algo_name]
          /\ communities[algo_name].num_communities > 1
          /\ \E c \in DOMAIN communities[algo_name].community_sizes :
                communities[algo_name].community_sizes[c] > 1

----------------------------------------------------------------------------
(* Properties of the temporal snapshots *)

\* positions of the articles that carry a date strptime accepts
DatedArticles(articles) ==
    {j \in 1..Len(articles) : articles[j].date # NoDate /\ Parses(articles[j].date)}

\* C11: build_temporal_network returns exactly one snapshot per period key
\* that has an article with a parseable date, in strictly ascending key
\* order, each with article_count the number of such articles of the period
\* (also when the graph has no edge); articles without a parseable date are
\* in no period.
C11_OneSnapshotPerPeriod ==
    pc = "temporal_built" =>
        LET articles == entities_data.article_entities
            dated == DatedArticles(articles)
            KeyOf(j) == period_of(articles[j].date, parameters.time_slices)
        IN /\ {temporal_graphs[i].period : i \in 1..Len(temporal_graphs)}
                = {KeyOf(j) : j \in dated}
           /\ \A i, k \in 1..Len(temporal_graphs) :
                 i < k => /\ temporal_graphs[i].period # temporal_graphs[k].period
                          /\ LexLeq(temporal_graphs[i].period,
                                    temporal_graphs[k].period)
           /\ \A i \in 1..Len(temporal_graphs) :
                 temporal_graphs[i].article_count
                   = Cardinality({j \in dated : KeyOf(j) = temporal_graphs[i].period})

\* two periods, the articles given latest first, one period with a graph
\* without edges
C11_Witness ==
    /\ pc = "temporal_built"
    /\ Len(temporal_graphs) = 2
    /\ entities_data.article_entities[1].date = Date(2020, 2, 10)
    /\ \E i \in 1..2 : /\ Edges(temporal_graphs[i].graph) = {}
                       /\ temporal_graphs[i].article_count = 1
    /\ \E i \in 1..2 : Edges(temporal_graphs[i].graph) # {}

----------------------------------------------------------------------------
(* Properties of the tag graphs *)

\* the articles whose tag list holds the tag
ArticlesCarrying(articles, tag) ==
    LET Carries(article) == \E k \in 1..Len(article.tags) : article.tags[k] = tag
    IN SelectSeq(articles, Carries)

\* C12: the keys of the mapping build_tag_based_network returns are exactly
\* the configured tags that some article carries (a configured tag without
\* articles is left out, a tag with articles is there even when its graph has
\* no edge), and the graph of a tag is build_cooccurrence_network over the
\* articles that carry it.
C12_TagGraphs ==
    pc = "tags_built" =>
        LET articles == entities_data.article_entities
        IN /\ {tag_networks[i].tag : i \in 1..Len(tag_networks)}
                = {tag \in Range(parameters.tags) :
                     ArticlesCarrying(articles, tag) # <<>>}
           /\ \A i, k \in 1..Len(tag_networks) :
                 tag_networks[i].tag = tag_networks[k].tag => i = k
           /\ \A i \in 1..Len(tag_networks) :
                 tag_networks[i].graph
                   = build_cooccurrence_network(
                         [article_entities |->
                              ArticlesCarrying(articles, tag_networks[i].tag)],
                         parameters)

\* two tags configured: one in no article and left out, the other with an
\* article and a graph without edges, next to an untagged article whose
\* entities would have made an edge
C12_Witness ==
    /\ pc = "tags_built"
    /\ Len(parameters.tags) = 2
    /\ Len(tag_networks) = 1
    /\ Edges(tag_networks[1].graph) = {}
    /\ Edges(build_cooccurrence_network(entities_data, parameters)) # {}

----------------------------------------------------------------------------
(* Properties of the node attributes *)

\* the type a directory section stands for
TypeOfSection(key) ==
    IF key = "people" THEN "PERSON"
    ELSE IF key = "places" THEN "PLACE" ELSE "ORG"

\* the node carries the type and the global count of one of its directory
\* entries, or UNKNOWN and 0 when the directory has no entry for it
AttributesFromDirectory(g, n) ==
    LET sections == {key \in {"people", "places", "organizations"} :
                        n \in DOMAIN entities_data[key]}
    IN IF sections = {}
       THEN g.attr[n] = [type |-> "UNKNOWN", mentions |-> 0]
       ELSE \E key \in sections :
               g.attr[n] = [type |-> TypeOfSection(key),
                            mentions |-> entities_data[key][n]]

\* C13: in every graph the builder produces (each period graph, the
\* whole-corpus graph), the 'type' and 'mentions' of every node are the type
\* and the global mention count of the entity in the Entity Directory, and
\* UNKNOWN and 0 only for a node without directory entry.
C13_AttributesFromDirectory ==
    /\ pc = "temporal_built" =>
          \A i \in 1..Len(temporal_graphs) :
              \A n \in Nodes(temporal_graphs[i].graph) :
                  AttributesFromDirectory(temporal_graphs[i].graph, n)
    /\ pc = "merged_built" =>
          \A n \in Nodes(G) : AttributesFromDirectory(G, n)

----------------------------------------------------------------------------
(* Properties of the filter stages *)

\* degree of a node in a set of edges (a self-loop counts twice)
DegreeIn(E, n) ==
    Cardinality({e \in E : e[1] = n}) + Cardinality({e \in E : e[2] = n})

\* the edges of E between nodes of N
Within(E, N) == {e \in E : e[1] \in N /\ e[2] \in N}

\* the graph of G on the nodes N with the edges E
Subgraph(N, E) ==
    LET Kept(n) == n \in N
    IN [order |-> SelectSeq(G.order, Kept),
        weight |-> [e \in E |-> G.weight[e]],
        attr |-> [n \in N |-> G.attr[n]]]

\* the edges the edge-weight stage leaves
HeavyEdges ==
    IF filtering_config.min_edge_weight > 0
    THEN {e \in Edges(G) : G.weight[e] >= filtering_config.min_edge_weight}
    ELSE Edges(G)

\* the nodes the degree stage leaves: degrees taken in HeavyEdges
DegreeNodes ==
    IF filtering_config.min_degree > 1
    THEN {n \in Nodes(G) : DegreeIn(HeavyEdges, n) >= filtering_config.min_degree}
    ELSE Nodes(G)

\* the nodes the top-N stage leaves: degrees taken after the degree stage,
\* equal degrees in the order of the nodes of G
TopNodes ==
    LET E == Within(HeavyEdges, DegreeNodes)
        Ahead(n) == {m \in DegreeNodes :
                        \/ DegreeIn(E, m) > DegreeIn(E, n)
                        \/ /\ DegreeIn(E, m) = DegreeIn(E, n)
                           /\ PositionOf(G, m) < PositionOf(G, n)}
    IN IF filtering_config.top_n_nodes # 0
       THEN {n \in DegreeNodes : Cardinality(Ahead(n)) < filtering_config.top_n_nodes}
       ELSE DegreeNodes

\* the nodes the giant-component stage leaves: the largest component of the
\* graph the top-N stage left
GiantNodes ==
    LET g == Subgraph(TopNodes, Within(HeavyEdges, TopNodes))
    IN IF filtering_config.giant_component_only
          /\ Len(connected_components(g)) > 1
       THEN LargestComponent(g)
       ELSE TopNodes

\* C14: the graph filter_network returns is the graph left by the edge-weight
\* stage, then the degree stage on its output, then the top-N stage on the
\* output of that, then the giant-component stage on the output of that.
C14_StagesInOrder ==
    pc = "filtered" =>
        filtered_G = Subgraph(GiantNodes, Within(HeavyEdges, GiantNodes))

\* every stage is switched on; a node had the degree asked for in G and lost
\* it with the low-weight edges, and the top-N stage left a graph of two
\* components
C14_Witness ==
    /\ pc = "filtered"
    /\ filtering_config.min_edge_weight > 0
    /\ filtering_config.min_degree > 1
    /\ filtering_config.top_n_nodes # 0
    /\ filtering_config.giant_component_only
    /\ \E n \in Nodes(G) \ DegreeNodes : Degree(G, n) >= filtering_config.min_degree
    /\ Nodes(filtered_G) # {}
    /\ Nodes(filtered_G) # TopNodes

----------------------------------------------------------------------------
(* Properties of the metrics bundle *)

\* the bundle holds the key, at its top or in its graph_metrics sub-mapping
BundleHolds(bundle, key) ==
    \/ key \in DOMAIN bundle
    \/ /\ "graph_metrics" \in DOMAIN bundle
       /\ key \in DOMAIN bundle["graph_metrics"]

\* C15: the bundle calculate_graph_metrics returns for a single graph holds
\* num_nodes and num_edges under every metric configuration, also with an
\* empty graph_metrics selection.
C15_CountsAlwaysPresent ==
    \A i \in 1..Len(metrics) :
        networks[i].kind = "Graph" =>
            /\ BundleHolds(metrics[i], "num_nodes")
            /\ BundleHolds(metrics[i], "num_edges")

----------------------------------------------------------------------------
(* Properties of the temporal metrics *)

\* the key of a timeline analysis and the name that requests it
TemporalMetricKeys ==
    {<<"persistence", "entity_persistence">>,
     <<"burstiness", "entity_burstiness">>,
     <<"emergence_rate", "entity_emergence_rate">>}

\* C16: persistence, burstiness and emergence rate are each reported only if
\* requested by name in temporal_metrics: the timeline analysis of an entity
\* holds none that was not requested, and none of the three when none is
\* requested.
C16_OnlyRequestedTemporalMetrics ==
    \A i \in 1..Len(metrics) :
        (networks[i].kind = "list" /\ "entity_timelines" \in DOMAIN metrics[i]) =>
            \A n \in DOMAIN metrics[i]["entity_timelines"] :
                \A k \in TemporalMetricKeys :
                    k[1] \in DOMAIN metrics[i]["entity_timelines"][n]
                    => Requested(k[2], metrics_config.temporal_metrics)

----------------------------------------------------------------------------
(* Properties of the community description and of the write-back *)

\* C17: get_community_info returns the communities by size descending, and
\* communities of equal size by ascending lowest-member name (so that the
\* order does not depend on the insertion order of the partition).
C17_SortedBySizeThenLowestMember ==
    pc = "info_done" =>
        \A i, j \in 1..Len(community_info) :
            i < j =>
                \/ community_info[i].size > community_info[j].size
                \/ /\ community_info[i].size = community_info[j].size
                   /\ MinOf(Range(community_info[i].nodes))
                        < MinOf(Range(community_info[j].nodes))

\* C18: add_communities_to_graph sets 'community' to the partition's id on
\* every node of the graph that is a key of the partition and changes nothing
\* else: a node that is no key keeps its attributes (and gets no 'community'),
\* a key that is no node adds no node, and no edge or other attribute changes.
C18_WriteBackFrame ==
    [][(pc = "partitioned" /\ pc' = "written_back") =>
          /\ G'.order = G.order
          /\ G'.weight = G.weight
          /\ DOMAIN G'.attr = DOMAIN G.attr
          /\ \A n \in Nodes(G) :
                IF n \in Range(partition_arg.keys)
                THEN /\ DOMAIN G'.attr[n] = DOMAIN G.attr[n] \cup {"community"}
                     /\ G'.attr[n]["community"] = partition_arg.ids[n]
                     /\ \A k \in DOMAIN G.attr[n] : G'.attr[n][k] = G.attr[n][k]
                ELSE /\ G'.attr[n] = G.attr[n]
                     /\ "community" \notin DOMAIN G'.attr[n]]_vars

\* a write-back onto a graph with edges where one node got its community, a
\* node was no key of the partition and a key was no node of the graph
C18_Witness ==
    /\ pc = "written_back"
    /\ Edges(G) # {}
    /\ \E n \in Nodes(G) : "community" \in DOMAIN G.attr[n]
    /\ \E n \in Nodes(G) : n \notin Range(partition_arg.keys)
    /\ \E n \in Range(partition_arg.keys) : n \notin Nodes(G)

----------------------------------------------------------------------------
(* Properties of the girvan_newman levels *)

\* the partition dict numbers the communities of the tuple from 0, in order
NumbersCommunities(part, found) ==
    /\ DOMAIN part = UNION {found[k] : k \in 1..Len(found)}
    /\ \A k \in 1..Len(found) : \A n \in found[k] : part[n] = k - 1

----------------------------------------------------------------------------
(* Properties of a run without the louvain library *)

\* detect_communities returned, or main went on after it
Returned == pc \in {"communities_done", "pipeline_done"}

\* the enabled entries of the configured list
EnabledNames ==
    {community_config.algorithms[i].name :
        i \in {j \in 1..Len(community_config.algorithms) :
                  community_config.algorithms[j].enabled}}

\* without the library the louvain result has no partition
C20_SkippedWithoutPartition ==
    (~louvain_installed /\ "louvain" \in DOMAIN communities) =>
        "partition" \notin DOMAIN communities["louvain"]

\* without the library detect_communities raises nothing and returns a result
\* for every enabled algorithm, with a partition for all but louvain
C20_OthersRun ==
    ~louvain_installed =>
        /\ pc # "communities_raised"
        /\ (Returned /\ community_config.enabled) =>
              \A name \in EnabledNames :
                  /\ name \in DOMAIN communities
                  /\ name # "louvain" =>
                        "partition" \in DOMAIN communities[name]

\* without the library main writes the partition of the last other result to
\* the nodes, nothing when there is no other result, and no community info
C20_NoWriteBackForLouvain ==
    (~louvain_installed /\ pc = "pipeline_done") =>
        LET names == result_names(community_config)
            IsOther(name) == name # "louvain"
            others == SelectSeq(names, IsOther)
        IN /\ community_info = <<>>
           /\ \A n \in Nodes(G) :
                 IF others = <<>>
                 THEN "community" \notin DOMAIN G.attr[n]
                 ELSE G.attr[n]["community"]
                        = communities[others[Len(others)]]["partition"][n]

\* C20: when the louvain library cannot be imported detect_communities does
\* not fail, the louvain result carries no partition, every other enabled
\* algorithm of the list returns its result, and main writes nothing back
\* for louvain.
C20_SkippedNotFatal ==
    /\ C20_SkippedWithoutPartition
    /\ C20_OthersRun
    /\ C20_NoWriteBackForLouvain

----------------------------------------------------------------------------
(* Properties of a configuration with an unknown name *)

\* the configuration enables an algorithm detect_communities has no branch for
NamesUnknownAlgorithm ==
    /\ community_config.enabled
    /\ \E i \in 1..Len(community_config.algorithms) :
          /\ community_config.algorithms[i].enabled
          /\ community_config.algorithms[i].name \notin KnownAlgorithms

\* C21: a configuration that names an unknown community algorithm is rejected
\* up front: detect_communities never works through it and returns as if the
\* name were not there.
C21_UnknownNameRejected ==
    NamesUnknownAlgorithm => ~Returned

----------------------------------------------------------------------------
(* Properties of label propagation on two disjoint triangles *)

\* C22: on two disjoint triangles _detect_label_propagation returns two
\* communities of size 3, the triangles, numbered 0 and 1 in the order in
\* which the graph lists their first nodes, and no modularity.
C22_TwoTriangles ==
    "label_propagation" \in DOMAIN communities =>
        LET result == communities["label_propagation"]
            first == G.order[1]
            Triangle(n) == IF n <= 3 THEN {1, 2, 3} ELSE {4, 5, 6}
        IN /\ result["num_communities"] = 2
           /\ DOMAIN result["community_sizes"] = {0, 1}
           /\ \A id \in {0, 1} : result["community_sizes"][id] = 3
           /\ DOMAIN result["partition"] = Nodes(G)
           /\ \A n \in Nodes(G) :
                 result["partition"][n] = IF n \in Triangle(first) THEN 0 ELSE 1
           /\ "modularity" \notin DOMAIN result

\* label propagation returned for a graph that lists a node of d-e-f first
\* and ends with a node of a-b-c
C22_Witness ==
    /\ pc = "communities_done"
    /\ "label_propagation" \in DOMAIN communities
    /\ G.order[1] = 5
    /\ G.order[6] = 2

----------------------------------------------------------------------------
(* Properties of the degree stage *)

\* C23: with top_n_nodes unset and giant_component_only false every node of
\* the graph filter_network returns has degree >= min_degree there.
C23_MinDegreeHolds ==
    (/\ pc = "filtered"
     /\ filtering_config.top_n_nodes = 0
     /\ ~filtering_config.giant_component_only) =>
        \A n \in Nodes(filtered_G) :
            Degree(filtered_G, n) >= filtering_config.min_degree

\* the part of C23 about min_degree = 1: no node without edges is returned
C23_NoIsolateAtMinDegreeOne ==
    (/\ pc = "filtered"
     /\ filtering_config.top_n_nodes = 0
     /\ ~filtering_config.giant_component_only
     /\ filtering_config.min_degree = 1) =>
        \A n \in Nodes(filtered_G) : Degree(filtered_G, n) >= 1

----------------------------------------------------------------------------
(* Properties of the giant-component stage *)

\* with giant_component_only a returned graph is empty or connected
C24_EmptyOrConnected ==
    (filtering_config.giant_component_only /\ pc = "filtered") =>
        \/ Nodes(filtered_G) = {}
        \/ Component(filtered_G, filtered_G.order[1]) = Nodes(filtered_G)

\* C24: with giant_component_only = true filter_network raises for no input,
\* and the graph it returns is the empty graph or a connected graph.
C24_GiantStageNeverRaises ==
    /\ filtering_config.giant_component_only => pc # "raised"
    /\ C24_EmptyOrConnected

----------------------------------------------------------------------------
(* The bipartite build *)

\* article['article_id'] of the i-th record: the ids of the input articles,
\* which are no entity names
ArticleId(i) == 10 + i

\* article records with their id and a list under another entity-type key
\* (mapping[entity_type.lower()] of the extractor)
BipartiteArticleRecords ==
    [people : PeopleLists, places : PlacesLists, organizations : {<<>>},
     other : {<<>>, <<3>>}, date : {Date(2020, 1, 15)}]

\* the people, places and organizations lists the bipartite loop reads
bipartite_entities_of(article) ==
    article.people \o article.places \o article.organizations

\* the add_node calls of build_bipartite_network in the order they run, each
\* with the class it writes: the article, then each of its entities
RECURSIVE bipartite_writes(_, _)
bipartite_writes(articles, i) ==
    IF i > Len(articles) THEN <<>>
    ELSE LET all_entities == bipartite_entities_of(articles[i])
         IN <<[node |-> ArticleId(i), bipartite |-> 0, node_type |-> "article"]>>
            \o [k \in 1..Len(all_entities) |->
                   [node |-> all_entities[k], bipartite |-> 1, node_type |-> "entity"]]
            \o bipartite_writes(articles, i + 1)

\* the add_edge(article_id, entity) calls
bipartite_edges(articles) ==
    {SortedPair(ArticleId(i), e) :
        i \in 1..Len(articles), e \in Entities} \cap
    UNION {{SortedPair(ArticleId(i), e) :
               e \in Range(bipartite_entities_of(articles[i]))} :
           i \in 1..Len(articles)}

\* the graph build_bipartite_network returns: the nodes in the order of their
\* first add_node, each with the attributes of its last add_node
build_bipartite_network(data) ==
    LET writes == bipartite_writes(data.article_entities, 1)
        order == FirstOccurrences([k \in 1..Len(writes) |-> writes[k].node], {})
        Last(n) == writes[MaxOf({k \in 1..Len(writes) : writes[k].node = n})]
    IN [order |-> order,
        weight |-> [e \in bipartite_edges(data.article_entities) |-> 1],
        attr |-> [n \in Range(order) |->
                    [bipartite |-> Last(n).bipartite,
                     node_type |-> Last(n).node_type]]]

InitBipartite ==
    /\ \E articles \in SeqsUpTo(BipartiteArticleRecords, MaxBipartiteArticles) :
          entities_data = Directory(articles)
    /\ parameters \in ParameterSets({"month"})
    /\ pc = "start"
    /\ G = EmptyGraph
    /\ temporal_graphs = <<>>
    /\ tag_networks = <<>>
    /\ filtering_config = NoFiltering
    /\ filtered_G = EmptyGraph
    /\ refiltered_G = EmptyGraph
    /\ networks = <<>>
    /\ metrics_config = NoMetrics
    /\ metrics = <<>>
    /\ community_config = NoCommunityDetection
    /\ louvain_installed = TRUE
    /\ algo_i = 1
    /\ communities = <<>>
    /\ partition_arg = NoPartition
    /\ community_info = <<>>

BuildBipartite ==
    /\ pc = "start"
    /\ G' = build_bipartite_network(entities_data)
    /\ pc' = "bipartite_built"
    /\ UNCHANGED <<entities_data, parameters, temporal_graphs, tag_networks,
                   filter_vars, metrics_vars, community_vars>>

NextBipartite == BuildBipartite

SpecBipartite == InitBipartite /\ [][NextBipartite]_vars

\* the (entity, article) memberships of the records, over all entity types
Memberships(articles) ==
    UNION {{<<e, ArticleId(i)>> : e \in Range(all_entities_of(articles[i]))} :
           i \in 1..Len(articles)}

\* the nodes of a class
ClassNodes(g, class) == {n \in Nodes(g) : g.attr[n].bipartite = class}

\* every edge joins an article node and an entity node, and the article
\* nodes are the records
C25_TwoClasses ==
    pc = "bipartite_built" =>
        LET articles == entities_data.article_entities
        IN /\ ClassNodes(G, 0) = {ArticleId(i) : i \in 1..Len(articles)}
           /\ Cardinality(ClassNodes(G, 0)) = Len(articles)
           /\ \A e \in Edges(G) :
                 {G.attr[e[1]].bipartite, G.attr[e[2]].bipartite} = {0, 1}

\* C25: build_bipartite_network returns one article node per record and one
\* edge per (article, entity) membership over all entity types of the record
\* (the other-typed ones included), every edge between the two classes.
C25_OneEdgePerMembership ==
    /\ C25_TwoClasses
    /\ pc = "bipartite_built" =>
          Edges(G) = Memberships(entities_data.article_entities)

----------------------------------------------------------------------------
(* The operations that read graphs: filter_network, calculate_all,          *)
(* detect_communities and get_community_info, each in its own run           *)

InitReaders == InitFilter \/ InitMetrics \/ InitCommunity \/ InitPartition

NextReaders == NextFilter \/ NextMetrics \/ NextCommunity \/ NextPartition

SpecReaders == InitReaders /\ [][NextReaders]_vars

\* C26: filter_network leaves the graph it is given unchanged, and so do
\* calculate_all, detect_communities and get_community_info with the graphs
\* they read; only the community write-back changes a graph in place.
C26_ReadersLeaveGraphs ==
    [][/\ pc \in {"built", "filtered"} => (G' = G /\ (pc = "filtered" => filtered_G' = filtered_G))
       /\ pc = "calculate_all" => networks' = networks
       /\ pc = "detect_communities" => G' = G
       /\ (pc = "written_back" /\ pc' = "info_done") => G' = G]_vars

\* filter_network returned a graph with fewer nodes than the one it was given
C26_Witness ==
    /\ pc = "filtered"
    /\ Nodes(filtered_G) # Nodes(G)
    /\ Nodes(filtered_G) # {}

----------------------------------------------------------------------------
(* The pipeline: main's filter step, then calculate_all *)

\* co-occurrence graphs build_all_networks hands on: a chain of entities with
\* one heavy edge, or a part of it
PipelineGraphs ==
    {GraphOf(ListOf(Endpoints(E)),
             [e \in E |-> IF e = <<1, 2>> THEN MaxWeight ELSE 1]) :
        E \in SUBSET {<<1, 2>>, <<2, 3>>, <<3, 4>>}}

\* bipartite graphs build_all_networks hands on
PipelineBipartiteGraphs ==
    {build_bipartite_network(Directory(articles)) :
        articles \in SeqsUpTo(
            {r \in BipartiteArticleRecords :
                r.people \in {<<>>, <<1, 2>>} /\ r.places = <<>> /\ r.other = <<>>},
            1)}

\* the values of the dict "networks", each with the graph type it was built
\* for: nx.Graph objects (co-occurrence, bipartite), a temporal list, a tag dict
PipelineNetworkData ==
    {[type |-> "cooccurrence", kind |-> "Graph", graph |-> g] : g \in PipelineGraphs}
    \cup {[type |-> "bipartite", kind |-> "Graph", graph |-> g] :
             g \in PipelineBipartiteGraphs}
    \cup {[type |-> "temporal", kind |-> "list",
           snapshots |-> <<[period |-> <<2020, 1>>, graph |-> g,
                            article_count |-> 1]>>] :
             g \in {h \in PipelineGraphs : Cardinality(Edges(h)) = 2}}
    \cup {[type |-> "tag_based", kind |-> "dict",
           tags |-> <<[tag |-> "crime", graph |-> g]>>] :
             g \in {h \in PipelineGraphs : Cardinality(Edges(h)) = 2}}

\* "hasattr(network_data, 'number_of_nodes')"
is_single_graph(network_data) == network_data.kind = "Graph"

\* "filtering_config.get('min_degree', 1) > 1 or
\* filtering_config.get('min_edge_weight', 0) > 0"
filters_apply(config) == config.min_degree > 1 \/ config.min_edge_weight > 0

\* a filter_network call of the step raises
apply_filters_raises(network_dict, config) ==
    /\ filters_apply(config)
    /\ \E i \in 1..Len(network_dict) :
          /\ is_single_graph(network_dict[i])
          /\ filter_network_raises(network_dict[i].graph, config)

\* the dict "networks" after the filter step of main
apply_filters(network_dict, config) ==
    IF filters_apply(config)
    THEN [i \in 1..Len(network_dict) |->
            IF is_single_graph(network_dict[i])
            THEN [network_dict[i] EXCEPT
                     !.graph = filter_network(network_dict[i].graph, config)]
            ELSE network_dict[i]]
    ELSE network_dict

\* the metrics section of the pipeline runs
PipelineMetrics ==
    [node_metrics |-> <<"degree_centrality">>, graph_metrics |-> <<"density">>,
     temporal_metrics |-> <<>>]

InitPipeline ==
    /\ entities_data = Directory(<<>>)
    /\ parameters \in ParameterSets({"month"})
    /\ parameters.min_cooccurrences = 1 /\ parameters.weight_by_frequency
    /\ temporal_graphs = <<>>
    /\ tag_networks = <<>>
    /\ G = EmptyGraph
    /\ filtering_config \in FilteringConfigs
    /\ filtered_G = EmptyGraph
    /\ refiltered_G = EmptyGraph
    /\ pc = "networks_built"
    /\ networks \in SeqsUpTo(PipelineNetworkData, MaxNetworks)
    /\ metrics_config = PipelineMetrics
    /\ metrics = <<>>
    /\ community_config = NoCommunityDetection
    /\ louvain_installed = TRUE
    /\ algo_i = 1
    /\ communities = <<>>
    /\ partition_arg = NoPartition
    /\ community_info = <<>>

\* "Apply filtering": the step of main between build_all_networks and
\* calculate_all
ApplyFilters ==
    /\ pc = "networks_built"
    /\ ~apply_filters_raises(networks, filtering_config)
    /\ networks' = apply_filters(networks, filtering_config)
    /\ pc' = "calculate_all"
    /\ UNCHANGED <<builder_vars, G, filter_vars, metrics_config, metrics,
                   community_vars>>

ApplyFiltersRaises ==
    /\ pc = "networks_built"
    /\ apply_filters_raises(networks, filtering_config)
    /\ pc' = "filters_raised"
    /\ UNCHANGED <<builder_vars, G, filter_vars, metrics_vars, community_vars>>

NextPipeline == ApplyFilters \/ ApplyFiltersRaises \/ NextMetrics

SpecPipeline == InitPipeline /\ [][NextPipeline]_vars

\* the filter step left temporal lists and tag dicts as they were
C27_CollectionsUnfiltered ==
    [][(pc = "networks_built" /\ pc' = "calculate_all") =>
          \A i \in 1..Len(networks) :
              ~is_single_graph(networks[i]) => networks'[i] = networks[i]]_vars

\* C27: the filter step of main filters single co-occurrence graphs only:
\* temporal lists, tag dicts and bipartite graphs reach calculate_all as they
\* were built.
C27_OnlyCooccurrenceFiltered ==
    [][(pc = "networks_built" /\ pc' = "calculate_all") =>
          \A i \in 1..Len(networks) :
              networks[i].type # "cooccurrence" => networks'[i] = networks[i]]_vars

\* a filtering parameter is set to a value that makes filter_network act
Effective(config) ==
    \/ config.min_degree > 1
    \/ config.min_edge_weight > 0
    \/ config.top_n_nodes # 0
    \/ config.giant_component_only

\* C28: whenever a filtering parameter has an effective value, every single
\* graph reaches calculate_all as filter_network returns it, also when only
\* top_n_nodes or giant_component_only is set.
C28_FilteredWheneverEffective ==
    [][(pc = "networks_built" /\ pc' = "calculate_all"
        /\ Effective(filtering_config)) =>
          \A i \in 1..Len(networks) :
              (/\ is_single_graph(networks[i])
               /\ ~filter_network_raises(networks[i].graph, filtering_config)) =>
                  networks'[i].graph
                      = filter_network(networks[i].graph, filtering_config)]_vars

\* the part of C28 that holds: min_degree > 1 or min_edge_weight > 0 has
\* every single graph filtered
C28_FilteredWhenDegreeOrWeight ==
    [][(pc = "networks_built" /\ pc' = "calculate_all"
        /\ filters_apply(filtering_config)) =>
          \A i \in 1..Len(networks) :
              is_single_graph(networks[i]) =>
                  networks'[i].graph
                      = filter_network(networks[i].graph, filtering_config)]_vars

----------------------------------------------------------------------------
(* Properties of the write-back of several algorithms *)

\* the entries of the configured list whose algorithm returned a partition
WithPartition ==
    {i \in 1..Len(community_config.algorithms) :
        /\ community_config.algorithms[i].enabled
        /\ community_config.algorithms[i].name \in DOMAIN communities
        /\ "partition" \in DOMAIN communities[community_config.algorithms[i].name]}

\* the name of the last of them
LastWithPartition == community_config.algorithms[MaxOf(WithPartition)].name

\* every node carries the id of the last algorithm that returned a partition
C29_LastPartitionWins ==
    (pc = "pipeline_done" /\ WithPartition # {}) =>
        \A n \in Nodes(G) :
            G.attr[n]["community"] = communities[LastWithPartition]["partition"][n]

\* the community info lists the communities of the louvain partition, and is
\* there whenever louvain returned a partition with a node
C29_InfoFromLouvain ==
    pc = "pipeline_done" =>
        /\ community_info # <<>> =>
              /\ has_louvain_partition(communities)
              /\ \A k \in 1..Len(community_info) :
                    Range(community_info[k].nodes)
                      = {n \in Nodes(G) :
                            communities["louvain"]["partition"][n]
                              = community_info[k].id}
        /\ (has_louvain_partition(communities) /\ Nodes(G) # {}) =>
              community_info # <<>>

\* the ids of the community info are the ids the nodes carry
Agree ==
    /\ community_info # <<>>
    /\ \A k \in 1..Len(community_info) :
          \A n \in Range(community_info[k].nodes) :
              G.attr[n]["community"] = community_info[k].id

\* C29 as stated: the last partition wins, the community info is louvain's,
\* and the two agree only if louvain is the last algorithm with a partition.
C29_AgreeOnlyIfLouvainLast ==
    /\ C29_LastPartitionWins
    /\ C29_InfoFromLouvain
    /\ (pc = "pipeline_done" /\ Agree) => LastWithPartition = "louvain"

\* C29 amended: the last partition wins, the community info is louvain's,
\* and the two agree whenever louvain is the last algorithm with a partition
\* (with another algorithm last they agree or not, as the partitions do).
C29_AgreeIfLouvainLast ==
    /\ C29_LastPartitionWins
    /\ C29_InfoFromLouvain
    /\ (/\ pc = "pipeline_done"
        /\ community_info # <<>>
        /\ LastWithPartition = "louvain") => Agree

\* louvain ran first and another algorithm after it, and the ids the nodes
\* carry are not those of the community info
C29_Witness ==
    /\ pc = "pipeline_done"
    /\ community_info # <<>>
    /\ Cardinality(WithPartition) = 2
    /\ LastWithPartition # "louvain"
    /\ ~Agree

----------------------------------------------------------------------------
(* Properties of girvan_newman on degenerate input *)

\* detect_communities was left by an exception of _detect_girvan_newman
GirvanNewmanRaised ==
    /\ pc = "communities_raised"
    /\ community_config.algorithms[algo_i].name = "girvan_newman"

\* C30: _detect_girvan_newman raises for no levels value and no graph, and
\* its result has a partition.
C30_GirvanNewmanNeverRaises ==
    /\ ~GirvanNewmanRaised
    /\ "girvan_newman" \in DOMAIN communities =>
          "partition" \in DOMAIN communities["girvan_newman"]

\* a graph without edges or without nodes is no problem when levels >= 1
C30_EdgelessGraphReturns ==
    (GirvanNewmanRaised /\ community_config.algorithms[algo_i].levels >= 1) =>
        Edges(G) # {}

====
